---- MODULE Spec2Model ----
(***************************************************************************)
(* Sequelize-JSONAPI: the document transformation engine of index.js,      *)
(* modelled over a small relational store.                                  *)
(*                                                                          *)
(* Rows are functions from column names to values, keyed by integer primary *)
(* key; documents (resource objects, identifiers, linkage, error objects)   *)
(* are records. Identifiers in documents and in requests are strings, as in *)
(* JSON; primary and foreign keys in the store are integers.                *)
(***************************************************************************)
EXTENDS Integers, Sequences, FiniteSets, TLC

VARIABLES
    models,      \* association metadata of the registered Sequelize models
    fkChecks,    \* whether the database enforces foreign key constraints
    db,          \* db[model]: the rows of the model's table, by primary key
    nextId,      \* nextId[model]: the next AUTOINCREMENT primary key
    h,           \* h[slot]: the handler invocation running in that slot
    arg          \* the last application of a pure helper: input and output

vars == <<models, fkChecks, db, nextId, h, arg>>

-----------------------------------------------------------------------------
(* Bounds *)

MaxId == 2          \* primary keys 1..MaxId per table
MaxList == 2        \* longest linkage list sent in a request body
MaxAssoc == 2       \* most associations of one model in SpecNames

-----------------------------------------------------------------------------
(* JavaScript values *)

\* null, as a foreign key value of a row
NULL == 0 - 1

\* String(id), for the integers the model uses
String(n) ==
    CASE n = 0 -> "0" [] n = 1 -> "1" [] n = 2 -> "2" [] n = 3 -> "3"
      [] n = 4 -> "4" [] n = 5 -> "5" [] n = 6 -> "6"
      [] n = 200 -> "200" [] n = 201 -> "201" [] n = 204 -> "204"
      [] n = 400 -> "400" [] n = 404 -> "404" [] n = 415 -> "415"
      [] n = 422 -> "422" [] n = 500 -> "500" [] OTHER -> "null"

\* The integer a key column compares equal to for the string s of a request
\* (SQLite's integer affinity); 0, the key of no row, when s is no numeral.
ToKey(s) ==
    IF \E n \in 1..(MaxId + 1) : String(n) = s
    THEN CHOOSE n \in 1..(MaxId + 1) : String(n) = s
    ELSE 0

\* The id strings a request may carry: one per key a table may hold
IdStrings == { String(n) : n \in 1..MaxId }

Range(s) == { s[i] : i \in DOMAIN s }

RECURSIVE SetToSeq(_)
\* the elements of a finite set of integers in ascending order
SetToSeq(S) ==
    IF S = {} THEN <<>>
    ELSE LET m == CHOOSE x \in S : \A y \in S : x <= y
         IN <<m>> \o SetToSeq(S \ {m})

\* assoc.as[0].toLowerCase(), on the letters the model's aliases start with
toLowerCase(c) ==
    CASE c = "P" -> "p" [] c = "U" -> "u" [] c = "M" -> "m" [] OTHER -> c

RECURSIVE Join(_)
\* a sequence of characters as one string
Join(cs) == IF cs = <<>> THEN "" ELSE Head(cs) \o Join(Tail(cs))

-----------------------------------------------------------------------------
(* The registered models and their associations *)

Models == {"User", "Post", "Profile"}

Chars(str) ==
    CASE str = "posts" -> <<"p", "o", "s", "t", "s">>
      [] str = "Posts" -> <<"P", "o", "s", "t", "s">>
      [] str = "profile" -> <<"p", "r", "o", "f", "i", "l", "e">>
      [] str = "user" -> <<"u", "s", "e", "r">>
      [] str = "editedPosts" -> <<"e", "d", "i", "t", "e", "d", "P", "o", "s", "t", "s">>
      [] str = "editor" -> <<"e", "d", "i", "t", "o", "r">>
      [] str = "manager" -> <<"m", "a", "n", "a", "g", "e", "r">>
      [] str = "boss" -> <<"b", "o", "s", "s">>
      [] OTHER -> <<>>

\* One entry of model.associations: the alias is kept as its characters
Association(type, as, foreignKey, target) ==
    [associationType |-> type, as |-> Chars(as), foreignKey |-> foreignKey,
     target |-> target]

\* The models of the test suite: User has many Post and one Profile
TestModels ==
    [m \in Models |->
        CASE m = "User" ->
               <<Association("HasMany", "posts", "userId", "Post"),
                 Association("HasOne", "profile", "userId", "Profile")>>
          [] m = "Post" -> <<Association("BelongsTo", "user", "userId", "User")>>
          [] OTHER -> <<Association("BelongsTo", "user", "userId", "User")>>]

\* The same models with a second has-many from User to Post (the posts a user
\* edited), as Sequelize allows under a second alias and foreign key
EditorModels ==
    [m \in Models |->
        CASE m = "User" ->
               <<Association("HasMany", "posts", "userId", "Post"),
                 Association("HasMany", "editedPosts", "editorId", "Post")>>
          [] m = "Post" ->
               <<Association("BelongsTo", "user", "userId", "User"),
                 Association("BelongsTo", "editor", "editorId", "User")>>
          [] OTHER -> <<>>]

\* model.name -> dasherize(inflection.pluralize(model.name))
RoutePath(modelName) ==
    CASE modelName = "User" -> "users"
      [] modelName = "Post" -> "posts"
      [] OTHER -> "profiles"

\* The plain attribute column of each model
PlainColumn(modelName) ==
    CASE modelName = "User" -> "name"
      [] modelName = "Post" -> "title"
      [] OTHER -> "bio"

RECURSIVE Dedup(_)
\* a sequence without its repeated elements (first occurrences kept)
Dedup(s) ==
    IF s = <<>> THEN <<>>
    ELSE LET r == Dedup(SubSeq(s, 1, Len(s) - 1))
         IN IF s[Len(s)] \in Range(r) THEN r ELSE Append(r, s[Len(s)])

RECURSIVE Flatten(_)
Flatten(ss) == IF ss = <<>> THEN <<>> ELSE Head(ss) \o Flatten(Tail(ss))

\* The foreign key columns of a model's table: those of its own belongs-to
\* associations and those that has-many / has-one associations put on it
ForeignKeyColumns(assocs, modelName) ==
    LET own == [i \in 1..Len(assocs[modelName]) |->
                   IF assocs[modelName][i].associationType = "BelongsTo"
                   THEN <<assocs[modelName][i].foreignKey>> ELSE <<>>]
        fromOther(m) ==
            [i \in 1..Len(assocs[m]) |->
                IF /\ assocs[m][i].associationType # "BelongsTo"
                   /\ assocs[m][i].target = modelName
                THEN <<assocs[m][i].foreignKey>> ELSE <<>>]
    IN Dedup(Flatten(own) \o Flatten(fromOther("User"))
             \o Flatten(fromOther("Post")) \o Flatten(fromOther("Profile")))

\* Object.keys(instance.dataValues) of a row loaded without include
Columns(assocs, modelName) ==
    <<"id", PlainColumn(modelName)>> \o ForeignKeyColumns(assocs, modelName)

OfType(assocList, type) == SelectSeq(assocList, LAMBDA a : a.associationType = type)

\* excludedKeys without the foreign keys of the belongs-to associations
ExcludedAliasOf(a) == <<Join(a.as)>>

\* the keys an association contributes to excludedKeys
ExcludedKeysOf(a) ==
    IF a.associationType = "BelongsTo" THEN <<a.foreignKey, Join(a.as)>>
    ELSE <<Join(a.as)>>

getAssociationDataForModel(assocList) ==
    [hasManyAssociations |-> OfType(assocList, "HasMany"),
     hasOneAssociations |-> OfType(assocList, "HasOne"),
     belongsToAssociations |-> OfType(assocList, "BelongsTo"),
     excludedKeys |->
        Flatten([i \in 1..Len(assocList) |-> ExcludedKeysOf(assocList[i])])]

\* The relationship name a resource object gives an association
HasManyName(a) == Join(<<toLowerCase(a.as[1])>> \o Tail(a.as))
HasOneName(a) == Join(a.as) \o "Id"
BelongsToName(a) == a.foreignKey

RelationshipName(a) ==
    CASE a.associationType = "HasMany" -> HasManyName(a)
      [] a.associationType = "HasOne" -> HasOneName(a)
      [] OTHER -> BelongsToName(a)

NoAssociation == [associationType |-> "null", as |-> <<>>, foreignKey |-> "", target |-> ""]

\* Array.prototype.find, given the elements that satisfy the test: the first
\* of them, else none
First(hits) == IF hits = <<>> THEN NoAssociation ELSE Head(hits)

findAssociationByRelationshipName(assocList, relationshipName) ==
    LET associationData == getAssociationDataForModel(assocList)
        hasManyMatch == First(SelectSeq(associationData.hasManyAssociations,
                                        LAMBDA a : HasManyName(a) = relationshipName))
        hasOneMatch == First(SelectSeq(associationData.hasOneAssociations,
                                       LAMBDA a : HasOneName(a) = relationshipName))
        belongsToMatch == First(SelectSeq(associationData.belongsToAssociations,
                                          LAMBDA a : a.foreignKey = relationshipName))
    IN IF hasManyMatch # NoAssociation
       THEN [association |-> hasManyMatch, associationType |-> "HasMany"]
       ELSE IF hasOneMatch # NoAssociation
       THEN [association |-> hasOneMatch, associationType |-> "HasOne"]
       ELSE IF belongsToMatch # NoAssociation
       THEN [association |-> belongsToMatch, associationType |-> "BelongsTo"]
       ELSE [association |-> NoAssociation, associationType |-> "null"]

-----------------------------------------------------------------------------
(* The persistence engine, as the handlers use it *)

NoInstance == [model |-> "null", values |-> <<>>, loaded |-> <<>>]

\* obj[key] = value on a JavaScript object
Assign(f, k, v) == [x \in DOMAIN f \cup {k} |-> IF x = k THEN v ELSE f[x]]

RECURSIVE AssignAll(_, _)
\* the assignments obj[p[1]] = p[2], in order
AssignAll(f, pairs) ==
    IF pairs = <<>> THEN f
    ELSE AssignAll(Assign(f, Head(pairs)[1], Head(pairs)[2]), Tail(pairs))

\* model.findByPk(id) / findOne({where: {id}}) without include
findByPk(d, modelName, key) ==
    IF key \in DOMAIN d[modelName]
    THEN [model |-> modelName, values |-> d[modelName][key], loaded |-> <<>>]
    ELSE NoInstance

\* KeysWhere with a LIMIT 1: only the first such row
KeysWhereFirst(d, modelName, column, value) ==
    LET keys == SetToSeq({ k \in DOMAIN d[modelName] : d[modelName][k][column] = value })
    IN IF keys = <<>> THEN <<>> ELSE <<keys[1]>>

\* The keys of the rows of a table whose column equals the value, in key order
KeysWhere(d, modelName, column, value) ==
    SetToSeq({ k \in DOMAIN d[modelName] : d[modelName][k][column] = value })

\* target.findAll({where: {[foreignKey]: parentId}})
findAllWhere(d, modelName, column, value) ==
    LET keys == KeysWhere(d, modelName, column, value)
    IN [i \in 1..Len(keys) |-> findByPk(d, modelName, keys[i])]

\* target.findOne({where: {[foreignKey]: parentId}}): the first such row
findOneWhere(d, modelName, column, value) ==
    LET rows == findAllWhere(d, modelName, column, value)
    IN IF rows = <<>> THEN NoInstance ELSE rows[1]

\* What an include entry loads under its alias for the row with this key
LoadAssociation(d, a, row) ==
    CASE a.associationType = "HasMany" ->
           findAllWhere(d, a.target, a.foreignKey, row["id"])
      [] a.associationType = "HasOne" ->
           LET one == findOneWhere(d, a.target, a.foreignKey, row["id"])
           IN IF one = NoInstance THEN <<>> ELSE <<one>>
      [] OTHER ->
           LET one == findByPk(d, a.target, row[a.foreignKey])
           IN IF one = NoInstance THEN <<>> ELSE <<one>>

\* model.findByPk(id, {include}): the row with the included associations loaded
findByPkInclude(assocs, d, modelName, key, includeTypes) ==
    IF key \notin DOMAIN d[modelName] THEN NoInstance
    ELSE LET row == d[modelName][key]
             inc == SelectSeq(assocs[modelName],
                              LAMBDA a : a.associationType \in includeTypes)
         IN [model |-> modelName, values |-> row,
             loaded |-> AssignAll(<<>>,
                 [i \in 1..Len(inc) |->
                     <<Join(inc[i].as), LoadAssociation(d, inc[i], row)>>])]

\* updateWhere that never writes null: a replacement that only adds
updateWhereAdding(d, modelName, column, value, keys) ==
    [d EXCEPT ![modelName] =
        [k \in DOMAIN d[modelName] |->
            IF k \in keys /\ value # NULL
            THEN [d[modelName][k] EXCEPT ![column] = value]
            ELSE d[modelName][k]]]

\* Model.update(values, {where}): one column set on the rows with these keys
updateWhere(d, modelName, column, value, keys) ==
    [d EXCEPT ![modelName] =
        [k \in DOMAIN d[modelName] |->
            IF k \in keys THEN [d[modelName][k] EXCEPT ![column] = value]
            ELSE d[modelName][k]]]

\* instance.update(values): the columns of one row, if the row is still there
updateRow(d, modelName, key, values) ==
    IF key \notin DOMAIN d[modelName] THEN d
    ELSE [d EXCEPT ![modelName][key] =
            [c \in DOMAIN d[modelName][key] |->
                IF c \in DOMAIN values THEN values[c] ELSE d[modelName][key][c]]]

\* The (model, column) pairs that reference a model: the foreign keys on other rows
ReferencesTo(assocs, modelName) ==
    { <<m, fk>> \in Models \X {"userId", "editorId"} :
        \/ \E i \in 1..Len(assocs[m]) :
              /\ assocs[m][i].associationType = "BelongsTo"
              /\ assocs[m][i].target = modelName
              /\ assocs[m][i].foreignKey = fk
        \/ \E i \in 1..Len(assocs[modelName]) :
              /\ assocs[modelName][i].associationType # "BelongsTo"
              /\ assocs[modelName][i].target = m
              /\ assocs[modelName][i].foreignKey = fk }

\* A destroy that deletes nothing
destroyNone(assocs, checks, d, modelName, key) == d

\* instance.destroy(): the row is deleted; a database that enforces foreign
\* keys sets the nullable foreign keys that referenced it to NULL (Sequelize's
\* ON DELETE SET NULL), one that does not leaves them dangling
destroy(assocs, checks, d, modelName, key) ==
    LET gone == [d EXCEPT ![modelName] =
                    [k \in DOMAIN d[modelName] \ {key} |-> d[modelName][k]]]
    IN IF ~checks THEN gone
       ELSE [m \in Models |->
               [k \in DOMAIN gone[m] |->
                   [c \in DOMAIN gone[m][k] |->
                       IF <<m, c>> \in ReferencesTo(assocs, modelName)
                          /\ gone[m][k][c] = key
                       THEN NULL ELSE gone[m][k][c]]]]

\* create that leaves the plain column at its default
createDefault(assocs, d, modelName, key, attributes) ==
    [d EXCEPT ![modelName] =
        [k \in DOMAIN d[modelName] \cup {key} |->
            IF k = key
            THEN [c \in Range(Columns(assocs, modelName)) |->
                    IF c = "id" THEN key
                    ELSE IF c = PlainColumn(modelName) THEN "null"
                    ELSE IF c \in DOMAIN attributes THEN attributes[c]
                    ELSE NULL]
            ELSE d[modelName][k]]]

\* model.create(attributes): a row under the next AUTOINCREMENT key; columns
\* not given are null (NULL in a foreign key, "null" in an attribute)
create(assocs, d, modelName, key, attributes) ==
    [d EXCEPT ![modelName] =
        [k \in DOMAIN d[modelName] \cup {key} |->
            IF k = key
            THEN [c \in Range(Columns(assocs, modelName)) |->
                    IF c = "id" THEN key
                    ELSE IF c \in DOMAIN attributes THEN attributes[c]
                    ELSE IF c = PlainColumn(modelName) THEN "null" ELSE NULL]
            ELSE d[modelName][k]]]

\* Whether a write of this value to a foreign key column passes the database's
\* foreign key check
ForeignKeyOk(checks, d, target, value) ==
    ~checks \/ value = NULL \/ value \in DOMAIN d[target]

-----------------------------------------------------------------------------
(* Documents *)

\* getBaseUrl(req): protocol, host and mount path of the router
BaseUrl == "http://host/api"

JsonApiVersion == "1.1"

\* buildResourceUrl(baseUrl, modelName, id), id a string or "undefined"
buildResourceUrl(baseUrl, modelName, id) ==
    IF id # "undefined"
    THEN baseUrl \o "/" \o RoutePath(modelName) \o "/" \o id
    ELSE baseUrl \o "/" \o RoutePath(modelName)

buildRelationshipLinks(baseUrl, modelName, id, relationshipName) ==
    LET resourceUrl == buildResourceUrl(baseUrl, modelName, id)
    IN [self |-> resourceUrl \o "/relationships/" \o relationshipName,
        related |-> resourceUrl \o "/" \o relationshipName]

buildResourceIdentifierObject(modelName, id) ==
    [id |-> String(id), type |-> modelName]

\* Linkage: null, one identifier, or a list of identifiers
NullLinkage == [k |-> "null", v |-> <<>>]
OneLinkage(identifier) == [k |-> "one", v |-> <<identifier>>]
ManyLinkage(identifiers) == [k |-> "many", v |-> identifiers]

\* Object.keys(instance.dataValues): the columns, then the loaded aliases
DataKeys(assocs, instance) ==
    LET cols == Columns(assocs, instance.model)
        inc == SelectSeq(assocs[instance.model],
                         LAMBDA a : Join(a.as) \in DOMAIN instance.loaded)
    IN cols \o [i \in 1..Len(inc) |-> Join(inc[i].as)]

buildSimpleResourceObject(assocs, instance, excludedAttributes) ==
    LET keys == { k \in Range(DataKeys(assocs, instance)) :
                    k # "id" /\ k \notin Range(excludedAttributes) }
    IN [id |-> String(instance.values["id"]),
        type |-> instance.model,
        attributes |-> [k \in keys |->
            IF k \in DOMAIN instance.values THEN instance.values[k]
            ELSE "[object Object]"],
        hasRelationships |-> FALSE,
        relationships |-> <<>>]

\* The linkage of a belongs-to taken from the loaded target row
belongsToDataOfLoaded(a, instance) ==
    IF Join(a.as) \in DOMAIN instance.loaded /\ instance.loaded[Join(a.as)] # <<>>
    THEN OneLinkage(buildResourceIdentifierObject(
             a.target, instance.loaded[Join(a.as)][1].values["id"]))
    ELSE NullLinkage

\* relationship.data of a belongs-to: from the foreign key of the row
belongsToData(a, instance) ==
    IF instance.values[a.foreignKey] # NULL
    THEN OneLinkage(buildResourceIdentifierObject(a.target, instance.values[a.foreignKey]))
    ELSE NullLinkage

\* The relationships member set only when the type has a relationship
SetRelationshipsIfAny(resourceObject, relationships) ==
    IF relationships = <<>> THEN resourceObject
    ELSE [resourceObject EXCEPT !.hasRelationships = TRUE,
                                !.relationships = relationships]

\* resourceObject.relationships = relationships
SetRelationships(resourceObject, relationships) ==
    [resourceObject EXCEPT !.hasRelationships = TRUE,
                           !.relationships = relationships]

RECURSIVE buildResourceObjectForInstance(_, _, _, _)
buildResourceObjectForInstance(assocs, instance, simple, baseUrl) ==
    IF instance = NoInstance
    THEN [null |-> TRUE, resourceObject |-> <<>>, included |-> <<>>]
    ELSE
    LET rowValues == instance.values
        loaded == instance.loaded
        modelName == instance.model
        associationData == getAssociationDataForModel(assocs[modelName])
        resourceObject ==
            buildSimpleResourceObject(assocs, instance, associationData.excludedKeys)
        hasMany == associationData.hasManyAssociations
        hasOne == associationData.hasOneAssociations
        belongsTo == associationData.belongsToAssociations
        links(name) ==
            buildRelationshipLinks(baseUrl, modelName, String(rowValues["id"]), name)
        entitiesOf(a) ==
            IF Join(a.as) \in DOMAIN loaded THEN loaded[Join(a.as)] ELSE <<>>
        entityIncluded(entity) ==
            LET entityResult ==
                    buildResourceObjectForInstance(assocs, entity, FALSE, baseUrl)
            IN <<entityResult.resourceObject>> \o entityResult.included
        hasManyRelationship(a) ==
            [data |-> ManyLinkage(
                [i \in 1..Len(entitiesOf(a)) |->
                    buildResourceIdentifierObject(entitiesOf(a)[i].model,
                                                  entitiesOf(a)[i].values["id"])]),
             links |-> links(HasManyName(a))]
        hasOneRelationship(a) ==
            [data |-> IF entitiesOf(a) # <<>>
                      THEN OneLinkage(buildResourceIdentifierObject(
                               entitiesOf(a)[1].model, entitiesOf(a)[1].values["id"]))
                      ELSE NullLinkage,
             links |-> links(HasOneName(a))]
        belongsToRelationship(a) ==
            [data |-> belongsToData(a, instance),
             links |-> links(a.foreignKey)]
        relationships ==
            AssignAll(<<>>,
                [i \in 1..Len(hasMany) |->
                    <<HasManyName(hasMany[i]), hasManyRelationship(hasMany[i])>>]
                \o [i \in 1..Len(hasOne) |->
                    <<HasOneName(hasOne[i]), hasOneRelationship(hasOne[i])>>]
                \o [i \in 1..Len(belongsTo) |->
                    <<belongsTo[i].foreignKey, belongsToRelationship(belongsTo[i])>>])
        included ==
            Flatten([i \in 1..Len(hasMany) |->
                        Flatten([j \in 1..Len(entitiesOf(hasMany[i])) |->
                                    entityIncluded(entitiesOf(hasMany[i])[j])])])
            \o Flatten([i \in 1..Len(hasOne) |->
                        IF entitiesOf(hasOne[i]) # <<>>
                        THEN entityIncluded(entitiesOf(hasOne[i])[1]) ELSE <<>>])
    IN IF simple
       THEN [null |-> FALSE, resourceObject |-> resourceObject, included |-> <<>>]
       ELSE [null |-> FALSE,
             resourceObject |-> SetRelationships(resourceObject, relationships),
             included |-> included]

\* A fetch that never finds the row
fetchAndBuildNothing(assocs, d, modelName, key, include, simple, baseUrl) ==
    buildResourceObjectForInstance(assocs, NoInstance, simple, baseUrl)

fetchAndBuildResourceObjectForModelById(assocs, d, modelName, key, include, simple, baseUrl) ==
    buildResourceObjectForInstance(
        assocs, findByPkInclude(assocs, d, modelName, key, include), simple, baseUrl)

RECURSIVE deduplicateIncluded(_)
\* forEach over includedArray: a resource is pushed unless its "type:id" key
\* was seen before
deduplicateIncluded(includedArray) ==
    IF includedArray = <<>> THEN <<>>
    ELSE LET n == Len(includedArray)
             deduplicated == deduplicateIncluded(SubSeq(includedArray, 1, n - 1))
             resource == includedArray[n]
             key(r) == r.type \o ":" \o r.id
         IN IF \E i \in 1..Len(deduplicated) : key(deduplicated[i]) = key(resource)
            THEN deduplicated
            ELSE Append(deduplicated, resource)

formatJsonApiError(status, title, detail, source) ==
    [status |-> String(status) , title |-> title, detail |-> detail, source |-> source]

-----------------------------------------------------------------------------
(* Filters *)

\* The keys of operatorMap
operatorMap == {"gt", "gte", "lt", "lte", "ne", "like", "in"}

\* A string of a query, by its comma-separated parts, and the list that
\* split(',') makes of it
StringValue(parts) == [k |-> "string", parts |-> parts]
ListValue(parts) == [k |-> "list", parts |-> parts]

\* where[field] while the keys of the value object are visited: isValue
\* tells whether it is the value object itself (with its own string keys),
\* symbols are the operator entries assigned to it
NoPredicate == [isValue |-> FALSE, symbols |-> <<>>]

RECURSIVE parseOperators(_, _, _)
\* Object.keys(value).forEach((operator) => ...), from the i-th key on
parseOperators(value, i, whereField) ==
    IF i > Len(value) THEN whereField
    ELSE LET operator == value[i].key
             operatorValue == value[i].value
         IN IF operator \in operatorMap
            THEN parseOperators(value, i + 1,
                    [whereField EXCEPT !.symbols =
                        Assign(whereField.symbols, operator,
                            IF operator = "in" /\ operatorValue.k = "string"
                            THEN ListValue(operatorValue.parts)
                            ELSE operatorValue)])
            ELSE parseOperators(value, i + 1,
                    IF whereField.isValue THEN whereField
                    ELSE [isValue |-> TRUE, symbols |-> <<>>])

\* where[field] of parseFilterParameters for a value that is an object, on a
\* field that is not a date
parseFilterParameters(value) == parseOperators(value, 1, NoPredicate)

-----------------------------------------------------------------------------
(* Requests, responses and the state of one handler invocation *)

NoSource == [kind |-> "none", value |-> ""]
Pointer(p) == [kind |-> "pointer", value |-> p]
Header(name) == [kind |-> "header", value |-> name]

NoLinks == [self |-> "", related |-> ""]
NoData == [k |-> "none", v |-> <<>>]

\* A response body: the top-level members present, and their values
EmptyBody ==
    [members |-> {}, data |-> NoData, errors |-> <<>>, included |-> <<>>,
     links |-> NoLinks]

NoResponse == [sent |-> 0, status |-> 0, body |-> EmptyBody, forwarded |-> 0]

NoFault == [at |-> 0, name |-> "", errors |-> <<>>]

\* The linkage of a request body: req.body.data by its JSON shape, with the
\* ids of its identifier objects
NoBodyData == [shape |-> "undefined", ids |-> <<>>]

NoRequest ==
    [op |-> "none", model |-> "", id |-> "", relationship |-> "", simple |-> "undefined",
     include |-> "undefined", data |-> NoBodyData, hasAttributes |-> FALSE, attributes |-> <<>>,
     relationships |-> <<>>, filterId |-> <<>>, hasFilter |-> FALSE, fault |-> NoFault]

Idle ==
    [pc |-> "idle", req |-> NoRequest, association |-> NoAssociation,
     associationType |-> "null", key |-> 0, foreignKeyValue |-> NULL,
     relatedIds |-> <<>>, cleared |-> <<>>, calls |-> 0, attempt |-> 1,
     res |-> NoResponse]

\* A handler called with a request: nothing has run yet
Invocation(req) == [Idle EXCEPT !.pc = "start", !.req = req]

\* JavaScript truthiness of a query string value / of a foreign key value
TruthyString(s) == s # "undefined" /\ s # ""
TruthyKey(v) == v # NULL /\ v # 0

\* res.status(status).json(body): the handler has answered
Send(c, status, body) ==
    [c EXCEPT !.pc = "done",
              !.res = [sent |-> c.res.sent + 1, status |-> status, body |-> body,
                       forwarded |-> c.res.forwarded]]

\* next() / next(error): the handler hands over without answering
Forward(c) ==
    [c EXCEPT !.pc = "done", !.res.forwarded = c.res.forwarded + 1]

\* ErrorBody on top of a document that keeps a data member
ErrorBodyWithData(errors) ==
    [EmptyBody EXCEPT !.members = {"jsonapi", "errors", "data"}, !.errors = errors]

ErrorBody(errors) ==
    [EmptyBody EXCEPT !.members = {"jsonapi", "errors"}, !.errors = errors]

\* An error answer after which the handler runs on into its next answer
sendJsonApiErrorTwice(c, status, title, detail, source) ==
    Send(Send(c, status, ErrorBody(<<formatJsonApiError(status, title, detail, source)>>)),
         status, ErrorBody(<<formatJsonApiError(status, title, detail, source)>>))

sendJsonApiError(c, status, title, detail, source) ==
    Send(c, status, ErrorBody(<<formatJsonApiError(status, title, detail, source)>>))

NotFound(c) ==
    sendJsonApiError(c, 404, "Resource Not Found",
        c.req.model \o " with id " \o c.req.id \o " not found", NoSource)

\* The answer for an unknown relationship given as that of a missing row
RelationshipNotFoundAsResource(c) == NotFound(c)

RelationshipNotFound(c) ==
    sendJsonApiError(c, 404, "Relationship Not Found",
        "Relationship '" \o c.req.relationship \o "' not found on " \o c.req.model,
        NoSource)

DatabaseErrorDetail(op) ==
    CASE op = "Create" -> "An error occurred while processing your request"
      [] op = "Delete" -> "An error occurred while deleting the resource"
      [] op = "GetSingle" -> "An error occurred while fetching the resource"
      [] op = "GetList" -> "An error occurred while fetching resources"
      [] op = "GetRelated" -> "An error occurred while fetching related resources"
      [] op = "Update" -> "An error occurred while updating the resource"
      [] op = "GetRelationship" -> "An error occurred while fetching the relationship"
      [] OTHER -> "An error occurred while updating the relationship"

\* A catch block that answers a database error with the error's own message
CatchLeaking(c, error) ==
    IF error.name = "SequelizeValidationError" /\ c.req.op \in {"Create", "Update"}
    THEN Send(c, 422, ErrorBody(
             [i \in 1..Len(error.errors) |->
                 formatJsonApiError(422, "Validation Error", error.errors[i].message,
                     Pointer("/data/attributes/" \o error.errors[i].path))]))
    ELSE IF error.name = "SequelizeDatabaseError"
    THEN sendJsonApiError(c, 500, "Database Error", error.message, NoSource)
    ELSE Forward(c)

\* A handler that swallows the error and issues the failed call once more
CatchAndRetry(c, error) == c

\* The catch block of a handler, for the error thrown by a persistence call
Catch(c, error) ==
    IF error.name = "SequelizeValidationError" /\ c.req.op \in {"Create", "Update"}
    THEN Send(c, 422, ErrorBody(
             [i \in 1..Len(error.errors) |->
                 formatJsonApiError(422, "Validation Error", error.errors[i].message,
                     Pointer("/data/attributes/" \o error.errors[i].path))]))
    ELSE IF error.name = "SequelizeDatabaseError"
    THEN sendJsonApiError(c, 500, "Database Error", DatabaseErrorDetail(c.req.op),
                          NoSource)
    ELSE Forward(c)

ForeignKeyError == [at |-> 0, name |-> "SequelizeForeignKeyConstraintError", errors |-> <<>>]
InstanceError == [at |-> 0, name |-> "SequelizeInstanceError", errors |-> <<>>]

\* Whether the persistence call the handler is about to make is the one that fails
Faulted(c) == c.req.fault.at = c.calls + 1

Called(c) == [c EXCEPT !.calls = c.calls + 1]

\* The state a step works on: the store and the invocation
St(d, n, c) == [db |-> d, nextId |-> n, c |-> c]

With(st, c) == [st EXCEPT !.c = c]

-----------------------------------------------------------------------------
(* The Content-Type middleware *)

JSONAPI_CONTENT_TYPE == "application/vnd.api+json"

\* A Content-Type header: absent, or its value as a sequence of pieces whose
\* concatenation is the text of the value
NoHeader == [present |-> FALSE, value |-> <<>>]
HeaderValue(pieces) == [present |-> TRUE, value |-> pieces]

\* !contentType: undefined or the empty string
Falsy(contentType) == ~contentType.present \/ contentType.value = <<>>

\* contentType.startsWith(JSONAPI_CONTENT_TYPE + next)
startsWith(contentType, next) ==
    /\ Len(contentType.value) >= 2
    /\ contentType.value[1] = JSONAPI_CONTENT_TYPE
    /\ contentType.value[2] = next

\* The invocation after the middleware: answered, or handed on by next()
\* with nothing changed
validateContentType(method, contentType, c) ==
    IF method \in {"POST", "PATCH"}
    THEN IF Falsy(contentType)
         THEN sendJsonApiError(c, 400, "Missing Content-Type",
                  "Content-Type header is required for requests with a body", NoSource)
         ELSE IF contentType.value # <<JSONAPI_CONTENT_TYPE>>
         THEN IF startsWith(contentType, ";") \/ startsWith(contentType, " ")
              THEN sendJsonApiError(c, 415, "Unsupported Media Type",
                       "Content-Type header must be application/vnd.api+json without media type parameters",
                       NoSource)
              ELSE sendJsonApiError(c, 415, "Unsupported Media Type",
                       "Content-Type must be " \o JSONAPI_CONTENT_TYPE,
                       Header("Content-Type"))
         ELSE c
    ELSE c

-----------------------------------------------------------------------------
(* The relationship endpoints *)

\* The body both relationship endpoints answer with
RelationshipBody(req, data) ==
    [EmptyBody EXCEPT
        !.members = {"data", "links", "jsonapi"},
        !.data = data,
        !.links = [self |-> buildResourceUrl(BaseUrl, req.model, req.id)
                            \o "/relationships/" \o req.relationship,
                   related |-> buildResourceUrl(BaseUrl, req.model, req.id)
                               \o "/" \o req.relationship]]

IdentifierOf(instance) ==
    buildResourceIdentifierObject(instance.model, instance.values["id"])

\* The fetch of the linkage that ends GetRelationship and UpdateRelationship:
\* findAll / findOne on the target by foreign key, or findByPk of the target
\* the parent's foreign key names
RelationshipReadStep(st) ==
    LET c == st.c
        a == c.association
        d == st.db
        many == findAllWhere(d, a.target, a.foreignKey, c.key)
        one == IF c.associationType = "HasOne"
               THEN findOneWhere(d, a.target, a.foreignKey, c.key)
               ELSE findByPk(d, a.target, c.foreignKeyValue)
        data == IF c.associationType = "HasMany"
                THEN ManyLinkage([i \in 1..Len(many) |-> IdentifierOf(many[i])])
                ELSE IF one # NoInstance THEN OneLinkage(IdentifierOf(one))
                ELSE NullLinkage
    IN IF Faulted(c) THEN With(st, Catch(Called(c), c.req.fault))
       ELSE With(st, Send(Called(c), 200, RelationshipBody(c.req, data)))

GetRelationshipStep(assocs, st) ==
    LET c == st.c
        req == c.req
        found == findAssociationByRelationshipName(assocs[req.model], req.relationship)
        parentInstance == findByPk(st.db, req.model, ToKey(req.id))
        resolved == [Called(c) EXCEPT !.association = found.association,
                                      !.associationType = found.associationType,
                                      !.key = ToKey(req.id)]
        foreignKeyValue == parentInstance.values[found.association.foreignKey]
    IN IF c.pc = "start"
       THEN IF found.association = NoAssociation
            THEN With(st, RelationshipNotFound(c))
            ELSE IF Faulted(c) THEN With(st, Catch(Called(c), req.fault))
            ELSE IF parentInstance = NoInstance THEN With(st, NotFound(Called(c)))
            ELSE IF found.associationType \in {"HasMany", "HasOne"}
            THEN With(st, [resolved EXCEPT !.pc = "read"])
            ELSE IF TruthyKey(foreignKeyValue)
            THEN With(st, [resolved EXCEPT !.pc = "read",
                                           !.foreignKeyValue = foreignKeyValue])
            ELSE With(st, Send(resolved, 200, RelationshipBody(req, NullLinkage)))
       ELSE RelationshipReadStep(st)

\* InvalidLinkage without the pointer to the offending member
InvalidLinkageNoSource(c, detail) ==
    sendJsonApiError(c, 400, "Invalid Request", detail, NoSource)

InvalidLinkage(c, detail) ==
    sendJsonApiError(c, 400, "Invalid Request", detail, Pointer("/data"))

\* The row the first id of the list names, if there is one
KeysOfFirstId(d, modelName, ids) ==
    (IF ids = <<>> THEN {} ELSE {ToKey(ids[1])}) \cap DOMAIN d[modelName]

\* The rows Model.update(..., {where: {id: relatedIds}}) matches
KeysOfIds(d, modelName, ids) ==
    { ToKey(ids[i]) : i \in 1..Len(ids) } \cap DOMAIN d[modelName]

\* A check of the body that lets every relationship write through
BodyNeverLacksData(req) == FALSE

\* !req.body || req.body.data === undefined
BodyLacksData(req) == req.data.shape = "undefined"

UpdateRelationshipStep(assocs, checks, st) ==
    LET c == st.c
        req == c.req
        d == st.db
        a == c.association
        found == findAssociationByRelationshipName(assocs[req.model], req.relationship)
        parentInstance == findByPk(d, req.model, ToKey(req.id))
        resolved == [Called(c) EXCEPT !.association = found.association,
                                      !.associationType = found.associationType,
                                      !.key = ToKey(req.id),
                                      !.relatedIds = req.data.ids]
        related == KeysWhere(d, a.target, a.foreignKey, c.key)
        matched == KeysOfIds(d, a.target, c.relatedIds)
        newValue == IF req.data.shape = "object" THEN ToKey(req.data.ids[1]) ELSE NULL
        reloaded == d[req.model][c.key][a.foreignKey]
    IN CASE c.pc = "start" ->
            IF BodyLacksData(req)
            THEN With(st, InvalidLinkage(c, "Request body must contain a \"data\" member"))
            ELSE IF found.association = NoAssociation
            THEN With(st, RelationshipNotFound(c))
            ELSE IF Faulted(c) THEN With(st, Catch(Called(c), req.fault))
            ELSE IF parentInstance = NoInstance THEN With(st, NotFound(Called(c)))
            ELSE IF found.associationType = "HasMany"
            THEN IF req.data.shape # "array"
                 THEN With(st, InvalidLinkage(Called(c),
                          "For to-many relationships, data must be an array"))
                 ELSE With(st, [resolved EXCEPT !.pc = "clear"])
            ELSE IF req.data.shape \notin {"null", "object"}
            THEN With(st, InvalidLinkage(Called(c),
                     "For to-one relationships, data must be a resource identifier object or null"))
            ELSE IF found.associationType = "BelongsTo"
            THEN With(st, [resolved EXCEPT !.pc = "writeParent"])
            ELSE With(st, [resolved EXCEPT !.pc = "clear"])
         [] c.pc = "clear" ->
            IF Faulted(c) THEN With(st, Catch(Called(c), req.fault))
            ELSE [st EXCEPT
                    !.db = updateWhere(d, a.target, a.foreignKey, NULL, Range(related)),
                    !.c = [Called(c) EXCEPT
                             !.cleared = related,
                             !.pc = IF c.associationType = "HasMany"
                                    THEN IF Len(c.relatedIds) > 0 THEN "set" ELSE "read"
                                    ELSE IF req.data.shape = "object" THEN "set"
                                    ELSE "read"]]
         [] c.pc = "set" ->
            IF Faulted(c) THEN With(st, Catch(Called(c), req.fault))
            ELSE IF matched # {} /\ ~ForeignKeyOk(checks, d, req.model, c.key)
            THEN With(st, Catch(Called(c), ForeignKeyError))
            ELSE [st EXCEPT
                    !.db = updateWhere(d, a.target, a.foreignKey, c.key, matched),
                    !.c = [Called(c) EXCEPT !.pc = "read"]]
         [] c.pc = "writeParent" ->
            IF Faulted(c) THEN With(st, Catch(Called(c), req.fault))
            ELSE IF c.key \in DOMAIN d[req.model]
                    /\ ~ForeignKeyOk(checks, d, a.target, newValue)
            THEN With(st, Catch(Called(c), ForeignKeyError))
            ELSE [st EXCEPT
                    !.db = updateRow(d, req.model, c.key,
                                     [col \in {a.foreignKey} |-> newValue]),
                    !.c = [Called(c) EXCEPT !.pc = "reload"]]
         [] c.pc = "reload" ->
            IF Faulted(c) THEN With(st, Catch(Called(c), req.fault))
            ELSE IF c.key \notin DOMAIN d[req.model]
            THEN With(st, Catch(Called(c), InstanceError))
            ELSE IF TruthyKey(reloaded)
            THEN With(st, [Called(c) EXCEPT !.pc = "read", !.foreignKeyValue = reloaded])
            ELSE With(st, Send(Called(c), 200, RelationshipBody(req, NullLinkage)))
         [] OTHER -> RelationshipReadStep(st)

-----------------------------------------------------------------------------
(* The resource endpoints *)

AllAssociationTypes == {"HasMany", "HasOne", "BelongsTo"}

\* null as the value of an attribute
NullAttribute == "null"

ResourceData(resourceObject) == [k |-> "resource", v |-> <<resourceObject>>]
ResourcesData(resourceObjects) == [k |-> "resources", v |-> resourceObjects]
NullData == [k |-> "null", v |-> <<>>]

RECURSIVE JoinComma(_)
JoinComma(ss) ==
    IF ss = <<>> THEN ""
    ELSE IF Len(ss) = 1 THEN ss[1]
    ELSE ss[1] \o "," \o JoinComma(Tail(ss))

GetSingleStep(assocs, st) ==
    LET c == st.c
        req == c.req
        simple == TruthyString(req.simple)
        object == fetchAndBuildResourceObjectForModelById(
                      assocs, st.db, req.model, ToKey(req.id),
                      IF simple THEN {} ELSE AllAssociationTypes, simple, BaseUrl)
    IN IF Faulted(c) THEN With(st, Catch(Called(c), req.fault))
       ELSE IF object.null THEN With(st, NotFound(Called(c)))
       ELSE With(st, Send(Called(c), 200,
               [EmptyBody EXCEPT
                   !.members = IF simple THEN {"data", "jsonapi"}
                               ELSE {"data", "links", "jsonapi"},
                   !.data = ResourceData(object.resourceObject),
                   !.links = IF simple THEN NoLinks
                             ELSE [self |-> buildResourceUrl(BaseUrl, req.model, req.id),
                                   related |-> ""]]))

GetListStep(assocs, st) ==
    LET c == st.c
        req == c.req
        d == st.db
        allKeys == SetToSeq(DOMAIN d[req.model])
        idKeys == SetToSeq(KeysOfIds(d, req.model, req.filterId))
        simpleData ==
            [i \in 1..Len(allKeys) |->
                buildResourceObjectForInstance(
                    assocs, findByPk(d, req.model, allKeys[i]), TRUE, "").resourceObject]
        hasIncludeParam == req.include # "undefined"
        found == IF req.hasFilter THEN idKeys ELSE allKeys
        fullData ==
            [i \in 1..Len(found) |->
                buildResourceObjectForInstance(
                    assocs,
                    findByPkInclude(assocs, d, req.model, found[i], AllAssociationTypes),
                    FALSE, BaseUrl).resourceObject]
        queryString ==
            IF req.hasFilter THEN "?filter[id]=" \o JoinComma(req.filterId)
            ELSE "?include=" \o req.include
    IN IF Faulted(c) THEN With(st, Catch(Called(c), req.fault))
       ELSE IF ~req.hasFilter /\ ~hasIncludeParam
       THEN With(st, Send(Called(c), 200,
               [EmptyBody EXCEPT
                   !.members = {"data", "links", "jsonapi"},
                   !.data = ResourcesData(simpleData),
                   !.links = [self |-> buildResourceUrl(BaseUrl, req.model, "undefined"),
                              related |-> ""]]))
       ELSE With(st, Send(Called(c), 200,
               [EmptyBody EXCEPT
                   !.members = {"data", "links", "jsonapi"},
                   !.data = ResourcesData(fullData),
                   !.links = [self |-> buildResourceUrl(BaseUrl, req.model, "undefined")
                                       \o queryString,
                              related |-> ""]]))

GetRelatedStep(assocs, st) ==
    LET c == st.c
        req == c.req
        d == st.db
        a == c.association
        found == findAssociationByRelationshipName(assocs[req.model], req.relationship)
        parentInstance == findByPk(d, req.model, ToKey(req.id))
        resolved == [Called(c) EXCEPT !.association = found.association,
                                      !.associationType = found.associationType,
                                      !.key = ToKey(req.id), !.pc = "read"]
        includes == {"HasMany", "HasOne"}
        load(k) == findByPkInclude(assocs, d, a.target, k, includes)
        build(instance) ==
            buildResourceObjectForInstance(assocs, instance, FALSE, BaseUrl).resourceObject
        relatedKeys == KeysWhere(d, a.target, a.foreignKey, c.key)
        relatedInstance ==
            IF c.associationType = "HasOne"
            THEN IF relatedKeys = <<>> THEN NoInstance ELSE load(relatedKeys[1])
            ELSE load(c.foreignKeyValue)
        data == IF c.associationType = "HasMany"
                THEN ResourcesData([i \in 1..Len(relatedKeys) |->
                                       build(load(relatedKeys[i]))])
                ELSE IF relatedInstance # NoInstance
                THEN ResourceData(build(relatedInstance))
                ELSE NullData
        body(dat) ==
            [EmptyBody EXCEPT
                !.members = {"data", "links", "jsonapi"},
                !.data = dat,
                !.links = [self |-> buildResourceUrl(BaseUrl, req.model, req.id)
                                    \o "/" \o req.relationship,
                           related |-> ""]]
        foreignKeyValue == parentInstance.values[found.association.foreignKey]
    IN IF c.pc = "start"
       THEN IF found.association = NoAssociation THEN With(st, Forward(c))
            ELSE IF Faulted(c) THEN With(st, Catch(Called(c), req.fault))
            ELSE IF parentInstance = NoInstance THEN With(st, NotFound(Called(c)))
            ELSE IF found.associationType # "BelongsTo" THEN With(st, resolved)
            ELSE IF TruthyKey(foreignKeyValue)
            THEN With(st, [resolved EXCEPT !.foreignKeyValue = foreignKeyValue])
            ELSE With(st, Send(resolved, 200, body(NullData)))
       ELSE IF Faulted(c) THEN With(st, Catch(Called(c), req.fault))
       ELSE With(st, Send(Called(c), 200, body(data)))

MissingData(c) ==
    sendJsonApiError(c, 400, "Invalid Request",
        "Request body must contain a \"data\" object", Pointer("/data"))

MissingAttributes(c) ==
    sendJsonApiError(c, 400, "Invalid Request",
        "Request body must contain \"data.attributes\"", Pointer("/data/attributes"))

\* attributes[belongsTo.foreignKey] for every belongs-to the body names
WithForeignKeys(assocList, attributes, relationships) ==
    LET belongsTo == getAssociationDataForModel(assocList).belongsToAssociations
        named == SelectSeq(belongsTo, LAMBDA a : a.foreignKey \in DOMAIN relationships)
    IN AssignAll(attributes,
          [i \in 1..Len(named) |->
              <<named[i].foreignKey,
                IF relationships[named[i].foreignKey].k = "one"
                THEN ToKey(relationships[named[i].foreignKey].id)
                ELSE NULL>>])

\* Whether every foreign key among the values passes the foreign key check
ForeignKeysOk(assocList, checks, d, values) ==
    \A i \in 1..Len(assocList) :
        (assocList[i].associationType = "BelongsTo"
            /\ assocList[i].foreignKey \in DOMAIN values)
        => ForeignKeyOk(checks, d, assocList[i].target, values[assocList[i].foreignKey])

TypeError == [at |-> 0, name |-> "TypeError", errors |-> <<>>]

CreateStep(assocs, checks, st) ==
    LET c == st.c
        req == c.req
        d == st.db
        attributes == WithForeignKeys(assocs[req.model], req.attributes, req.relationships)
        resourceId == st.nextId[req.model]
        object == fetchAndBuildResourceObjectForModelById(
                      assocs, d, req.model, c.key, AllAssociationTypes, FALSE, BaseUrl)
    IN IF c.pc = "start"
       THEN IF req.data.shape \in {"undefined", "null"} THEN With(st, MissingData(c))
            ELSE IF ~req.hasAttributes THEN With(st, MissingAttributes(c))
            ELSE IF Faulted(c) THEN With(st, Catch(Called(c), req.fault))
            ELSE IF ~ForeignKeysOk(assocs[req.model], checks, d, attributes)
            THEN With(st, Catch(Called(c), ForeignKeyError))
            ELSE [db |-> create(assocs, d, req.model, resourceId, attributes),
                  nextId |-> [st.nextId EXCEPT ![req.model] = resourceId + 1],
                  c |-> [Called(c) EXCEPT !.pc = "fetch", !.key = resourceId]]
       ELSE IF Faulted(c) THEN With(st, Catch(Called(c), req.fault))
       ELSE IF object.null THEN With(st, Catch(Called(c), TypeError))
       ELSE With(st, Send(Called(c), 201,
               [EmptyBody EXCEPT
                   !.members = IF Len(object.included) > 0
                               THEN {"data", "included", "links", "jsonapi"}
                               ELSE {"data", "links", "jsonapi"},
                   !.data = ResourceData(object.resourceObject),
                   !.included = object.included,
                   !.links = [self |-> buildResourceUrl(BaseUrl, req.model,
                                                        String(c.key)),
                              related |-> ""]]))

\* The attributes as they were sent
BlankKept(attributes) == attributes

\* attributes[key] = null for every attribute sent as ''
BlankToNull(attributes) ==
    [k \in DOMAIN attributes |->
        IF attributes[k] = "" THEN NullAttribute ELSE attributes[k]]

UpdateStep(assocs, checks, st) ==
    LET c == st.c
        req == c.req
        d == st.db
        key == ToKey(req.id)
        attributes == WithForeignKeys(assocs[req.model], BlankToNull(req.attributes),
                                      req.relationships)
        object == fetchAndBuildResourceObjectForModelById(
                      assocs, d, req.model, key, AllAssociationTypes, FALSE, BaseUrl)
    IN CASE c.pc = "start" ->
            IF req.data.shape \in {"undefined", "null"} THEN With(st, MissingData(c))
            ELSE IF ~req.hasAttributes THEN With(st, MissingAttributes(c))
            ELSE IF Faulted(c) THEN With(st, Catch(Called(c), req.fault))
            ELSE IF findByPk(d, req.model, key) = NoInstance
            THEN With(st, NotFound(Called(c)))
            ELSE With(st, [Called(c) EXCEPT !.pc = "update", !.key = key])
         [] c.pc = "update" ->
            IF Faulted(c) THEN With(st, Catch(Called(c), req.fault))
            ELSE IF key \in DOMAIN d[req.model]
                    /\ ~ForeignKeysOk(assocs[req.model], checks, d, attributes)
            THEN With(st, Catch(Called(c), ForeignKeyError))
            ELSE [st EXCEPT !.db = updateRow(d, req.model, key, attributes),
                            !.c = [Called(c) EXCEPT !.pc = "fetch"]]
         [] OTHER ->
            IF Faulted(c) THEN With(st, Catch(Called(c), req.fault))
            ELSE IF object.null THEN With(st, NotFound(Called(c)))
            ELSE With(st, Send(Called(c), 200,
                    [EmptyBody EXCEPT
                        !.members = {"data", "links", "jsonapi"},
                        !.data = ResourceData(object.resourceObject),
                        !.links = [self |-> buildResourceUrl(BaseUrl, req.model, req.id),
                                   related |-> ""]]))

DeleteStep(assocs, checks, st) ==
    LET c == st.c
        req == c.req
        d == st.db
        key == ToKey(req.id)
    IN IF c.pc = "start"
       THEN IF Faulted(c) THEN With(st, Catch(Called(c), req.fault))
            ELSE IF findByPk(d, req.model, key) = NoInstance
            THEN With(st, NotFound(Called(c)))
            ELSE With(st, [Called(c) EXCEPT !.pc = "destroy", !.key = key])
       ELSE IF Faulted(c) THEN With(st, Catch(Called(c), req.fault))
       ELSE [st EXCEPT !.db = destroy(assocs, checks, d, req.model, key),
                       !.c = Send(Called(c), 204, EmptyBody)]

\* Each handler run to its end with no other request in between
RECURSIVE CreateRun(_, _, _)
CreateRun(assocs, checks, st) ==
    IF st.c.pc = "done" THEN st
    ELSE CreateRun(assocs, checks, CreateStep(assocs, checks, st))

RECURSIVE UpdateRun(_, _, _)
UpdateRun(assocs, checks, st) ==
    IF st.c.pc = "done" THEN st
    ELSE UpdateRun(assocs, checks, UpdateStep(assocs, checks, st))

RECURSIVE DeleteRun(_, _, _)
DeleteRun(assocs, checks, st) ==
    IF st.c.pc = "done" THEN st
    ELSE DeleteRun(assocs, checks, DeleteStep(assocs, checks, st))

RECURSIVE GetSingleRun(_, _, _)
GetSingleRun(assocs, checks, st) ==
    IF st.c.pc = "done" THEN st
    ELSE GetSingleRun(assocs, checks, GetSingleStep(assocs, st))

RECURSIVE GetListRun(_, _, _)
GetListRun(assocs, checks, st) ==
    IF st.c.pc = "done" THEN st
    ELSE GetListRun(assocs, checks, GetListStep(assocs, st))

RECURSIVE GetRelatedRun(_, _, _)
GetRelatedRun(assocs, checks, st) ==
    IF st.c.pc = "done" THEN st
    ELSE GetRelatedRun(assocs, checks, GetRelatedStep(assocs, st))

RECURSIVE GetRelationshipRun(_, _, _)
GetRelationshipRun(assocs, checks, st) ==
    IF st.c.pc = "done" THEN st
    ELSE GetRelationshipRun(assocs, checks, GetRelationshipStep(assocs, st))

RECURSIVE UpdateRelationshipRun(_, _, _)
UpdateRelationshipRun(assocs, checks, st) ==
    IF st.c.pc = "done" THEN st
    ELSE UpdateRelationshipRun(assocs, checks, UpdateRelationshipStep(assocs, checks, st))

-----------------------------------------------------------------------------
(* The requests the specifications send *)

Slots == 1..2

RelationshipNames == {"posts", "profileId", "userId", "comments"}

\* req.query.simple: absent, or the text after "simple="
QueryFlags == {"undefined", "true", "false"}

\* The lists of id strings of length at most n
RECURSIVE IdLists(_)
IdLists(n) ==
    IF n = 0 THEN {<<>>}
    ELSE IdLists(n - 1)
         \cup { Append(l, s) : l \in { x \in IdLists(n - 1) : Len(x) = n - 1 },
                               s \in IdStrings }

\* req.body.data of a relationship write, by shape
LinkageBodies ==
    {NoBodyData, [shape |-> "null", ids |-> <<>>], [shape |-> "scalar", ids |-> <<>>]}
    \cup { [shape |-> "object", ids |-> <<s>>] : s \in IdStrings }
    \cup { [shape |-> "array", ids |-> l] : l \in IdLists(MaxList) }

\* data.relationships of a create / update body: nothing, or the belongs-to
\* under its foreign key name with null or an identifier as data
RelationshipBodies(assocList) ==
    LET belongsTo == getAssociationDataForModel(assocList).belongsToAssociations
    IN {<<>>}
       \cup { [fk \in {belongsTo[i].foreignKey} |-> [k |-> "null", id |-> ""]] :
                i \in 1..Len(belongsTo) }
       \cup { [fk \in {belongsTo[i].foreignKey} |-> [k |-> "one", id |-> s]] :
                i \in 1..Len(belongsTo), s \in IdStrings }

\* The bodies of create / update requests: a well-formed one per relationships
\* member, one without data, one without data.attributes
ResourceBodies(assocList, modelName) ==
    { [data |-> [shape |-> "object", ids |-> <<>>], hasAttributes |-> TRUE,
       attributes |-> [col \in {PlainColumn(modelName)} |-> "a"],
       relationships |-> r] : r \in RelationshipBodies(assocList) }
    \cup { [data |-> NoBodyData, hasAttributes |-> FALSE, attributes |-> <<>>,
            relationships |-> <<>>],
           [data |-> [shape |-> "object", ids |-> <<>>], hasAttributes |-> FALSE,
            attributes |-> <<>>, relationships |-> <<>>] }

\* data.attributes of a create / update body for the plain column: no field,
\* a text, or the empty string
AttributeMaps(modelName) ==
    {<<>>}
    \cup { [col \in {PlainColumn(modelName)} |-> v] : v \in {"a", ""} }

\* data.attributes with the foreign key of a belongs-to given as an attribute
ForeignKeyAttributes(assocList, modelName) ==
    LET belongsTo == getAssociationDataForModel(assocList).belongsToAssociations
    IN { [col \in {PlainColumn(modelName), belongsTo[i].foreignKey} |->
             IF col = PlainColumn(modelName) THEN "a" ELSE 1] :
           i \in 1..Len(belongsTo) }

\* Well-formed bodies of create / update requests, by attributes and
\* relationships
AttributeBodies(assocList, modelName) ==
    { [data |-> [shape |-> "object", ids |-> <<>>], hasAttributes |-> TRUE,
       attributes |-> a, relationships |-> r] :
        a \in AttributeMaps(modelName), r \in RelationshipBodies(assocList) }

\* What a request's first persistence call may do: succeed, or throw a
\* database error, a validation error (on a write of a row) or another error
Faults(op) ==
    {NoFault,
     [at |-> 1, name |-> "SequelizeDatabaseError", errors |-> <<>>],
     [at |-> 1, name |-> "Error", errors |-> <<>>]}
    \cup IF op \in {"Create", "Update"}
         THEN { [at |-> IF op = "Create" THEN 1 ELSE 2,
                 name |-> "SequelizeValidationError",
                 errors |-> <<[message |-> "Validation notEmpty failed",
                               path |-> PlainColumn("User")]>>] }
         ELSE {}

Request(op, modelName, id, fault) ==
    [NoRequest EXCEPT !.op = op, !.model = modelName, !.id = id, !.fault = fault]

-----------------------------------------------------------------------------
(* Spec: requests handled one after the other *)

NoArg == [f |-> "none", in |-> <<>>, out |-> <<>>]

\* The tables a specification sends requests for
UserAndPost == {"User", "Post"}
UserAndProfile == {"User", "Profile"}

Init ==
    /\ models = TestModels
    /\ fkChecks \in BOOLEAN
    /\ db = [m \in Models |-> <<>>]
    /\ nextId = [m \in Models |-> 1]
    /\ h = [s \in Slots |-> Idle]
    /\ arg = NoArg

\* A request arrives when none is being served, and its handler runs to the
\* end: r is the outcome
Handle(r) ==
    /\ h[1].pc = "idle"
    /\ db' = r.db
    /\ nextId' = r.nextId
    /\ h' = [h EXCEPT ![1] = r.c]
    /\ UNCHANGED <<models, fkChecks, arg>>

\* The state a handler starts in
Start(req) == St(db, nextId, Invocation(req))

Create(ms) ==
    \E m \in ms, f \in Faults("Create") : \E b \in ResourceBodies(models[m], m) :
        /\ nextId[m] <= MaxId
        /\ Handle(CreateRun(models, fkChecks, Start(
              [Request("Create", m, "", f) EXCEPT
                  !.data = b.data, !.hasAttributes = b.hasAttributes,
                  !.attributes = b.attributes, !.relationships = b.relationships])))

Update(ms) ==
    \E m \in ms, id \in IdStrings, f \in Faults("Update") :
      \E b \in ResourceBodies(models[m], m) :
        Handle(UpdateRun(models, fkChecks, Start(
            [Request("Update", m, id, f) EXCEPT
                !.data = b.data, !.hasAttributes = b.hasAttributes,
                !.attributes = b.attributes, !.relationships = b.relationships])))

Delete(ms) ==
    \E m \in ms, id \in IdStrings, f \in Faults("Delete") :
        Handle(DeleteRun(models, fkChecks, Start(Request("Delete", m, id, f))))

GetSingle(ms) ==
    \E m \in ms, id \in IdStrings, q \in QueryFlags, f \in Faults("GetSingle") :
        Handle(GetSingleRun(models, fkChecks, Start(
            [Request("GetSingle", m, id, f) EXCEPT !.simple = q])))

GetList(ms) ==
    \E m \in ms, f \in Faults("GetList") :
       \/ Handle(GetListRun(models, fkChecks, Start(Request("GetList", m, "", f))))
       \/ \E l \in IdLists(MaxList) \ {<<>>} :
             Handle(GetListRun(models, fkChecks, Start(
                 [Request("GetList", m, "", f) EXCEPT
                     !.hasFilter = TRUE, !.filterId = l])))
       \/ Handle(GetListRun(models, fkChecks, Start(
              [Request("GetList", m, "", f) EXCEPT !.include = "posts"])))

GetRelated(ms) ==
    \E m \in ms, id \in IdStrings, rel \in RelationshipNames,
       f \in Faults("GetRelated") :
        Handle(GetRelatedRun(models, fkChecks, Start(
            [Request("GetRelated", m, id, f) EXCEPT !.relationship = rel])))

GetRelationship(ms) ==
    \E m \in ms, id \in IdStrings, rel \in RelationshipNames,
       f \in Faults("GetRelationship") :
        Handle(GetRelationshipRun(models, fkChecks, Start(
            [Request("GetRelationship", m, id, f) EXCEPT !.relationship = rel])))

UpdateRelationship(ms) ==
    \E m \in ms, id \in IdStrings, rel \in RelationshipNames, b \in LinkageBodies,
       f \in Faults("UpdateRelationship") :
        Handle(UpdateRelationshipRun(models, fkChecks, Start(
            [Request("UpdateRelationship", m, id, f) EXCEPT
                !.relationship = rel, !.data = b])))

\* The response is out and the invocation over
Finish ==
    /\ h[1].pc = "done"
    /\ h' = [h EXCEPT ![1] = Idle]
    /\ UNCHANGED <<models, fkChecks, db, nextId, arg>>

\* The client sends the relationship write just answered with 200 once more
Resend ==
    LET again == [Invocation(h[1].req) EXCEPT !.attempt = 2]
        r == UpdateRelationshipRun(models, fkChecks, St(db, nextId, again))
    IN /\ h[1].pc = "done"
       /\ h[1].req.op = "UpdateRelationship"
       /\ h[1].res.status = 200
       /\ h[1].attempt = 1
       /\ db' = r.db
       /\ nextId' = r.nextId
       /\ h' = [h EXCEPT ![1] = r.c]
       /\ UNCHANGED <<models, fkChecks, arg>>

Next ==
    \/ Create(UserAndPost)
    \/ Update(UserAndPost)
    \/ Delete(UserAndPost)
    \/ GetSingle(UserAndPost)
    \/ GetList(UserAndPost)
    \/ GetRelated(UserAndPost)
    \/ GetRelationship(UserAndPost)
    \/ UpdateRelationship(UserAndPost)
    \/ Finish
    \/ Resend

Spec == Init /\ [][Next]_vars

\* SpecProfile: the same, on users and their profiles
NextProfile ==
    \/ Create(UserAndProfile)
    \/ Update(UserAndProfile)
    \/ Delete(UserAndProfile)
    \/ GetSingle(UserAndProfile)
    \/ GetRelationship(UserAndProfile)
    \/ UpdateRelationship(UserAndProfile)
    \/ Finish

SpecProfile == Init /\ [][NextProfile]_vars

\* SpecEditor: users and posts under the models with two has-many
\* associations from User to Post
InitEditor ==
    /\ models = EditorModels
    /\ fkChecks \in BOOLEAN
    /\ db = [m \in Models |-> <<>>]
    /\ nextId = [m \in Models |-> 1]
    /\ h = [s \in Slots |-> Idle]
    /\ arg = NoArg

NextEditor ==
    \/ Create(UserAndPost)
    \/ Update(UserAndPost)
    \/ GetSingle(UserAndPost)
    \/ Finish

SpecEditor == InitEditor /\ [][NextEditor]_vars

\* SpecPlain: users and profiles under the same models, where User has
\* to-many associations only and Profile has no association
NextPlain ==
    \/ Create(UserAndProfile)
    \/ Update(UserAndProfile)
    \/ GetSingle(UserAndProfile)
    \/ GetList(UserAndProfile)
    \/ Finish

SpecPlain == InitEditor /\ [][NextPlain]_vars

-----------------------------------------------------------------------------
(* SpecAttrs: profiles written with any attributes and relationships *)

CreateWith(m) ==
    \E a \in AttributeMaps(m) \cup ForeignKeyAttributes(models[m], m),
       r \in RelationshipBodies(models[m]) :
        /\ nextId[m] <= MaxId
        /\ Handle(CreateRun(models, fkChecks, Start(
              [Request("Create", m, "", NoFault) EXCEPT
                  !.data = [shape |-> "object", ids |-> <<>>], !.hasAttributes = TRUE,
                  !.attributes = a, !.relationships = r])))

UpdateWith(m) ==
    \E id \in IdStrings, b \in AttributeBodies(models[m], m) :
        Handle(UpdateRun(models, fkChecks, Start(
            [Request("Update", m, id, NoFault) EXCEPT
                !.data = b.data, !.hasAttributes = b.hasAttributes,
                !.attributes = b.attributes, !.relationships = b.relationships])))

NextAttrs ==
    \/ Create({"User"})
    \/ CreateWith("Profile")
    \/ UpdateWith("Profile")
    \/ GetSingle({"Profile"})
    \/ Finish

SpecAttrs == Init /\ [][NextAttrs]_vars

-----------------------------------------------------------------------------
(* SpecMedia: requests for users pass the Content-Type middleware first *)

\* What follows the media type in a header value: nothing, or a parameter
\* after ";" with or without white space around it
Parameters ==
    {<<>>, <<";">>, <<";", "charset=utf-8">>, <<";", " ", "charset=utf-8">>,
     <<" ", ";", " ", "charset=utf-8">>, <<"\t", ";", "charset=utf-8">>}

ContentTypes ==
    {NoHeader, HeaderValue(<<>>)}
    \cup { HeaderValue(<<t>> \o p) :
             t \in {JSONAPI_CONTENT_TYPE, "application/json"}, p \in Parameters }

\* router.use(path, validateContentType) before the route of the method: the
\* handler run r.c starts from is called only after next()
Route(method, contentType, req, r) ==
    LET c == validateContentType(method, contentType, Invocation(req))
    IN /\ h[1].pc = "idle"
       /\ db' = IF c.pc = "done" THEN db ELSE r.db
       /\ nextId' = IF c.pc = "done" THEN nextId ELSE r.nextId
       /\ h' = [h EXCEPT ![1] = IF c.pc = "done" THEN c ELSE r.c]
       /\ arg' = [f |-> "validateContentType", in |-> <<method, contentType>>,
                  out |-> <<IF c.pc = "done" THEN "sent" ELSE "next">>]
       /\ UNCHANGED <<models, fkChecks>>

RouterPost ==
    \E ct \in ContentTypes, b \in ResourceBodies(models["User"], "User") :
        LET req == [Request("Create", "User", "", NoFault) EXCEPT
                       !.data = b.data, !.hasAttributes = b.hasAttributes,
                       !.attributes = b.attributes, !.relationships = b.relationships]
        IN /\ nextId["User"] <= MaxId
           /\ Route("POST", ct, req, CreateRun(models, fkChecks, Start(req)))

RouterPatch ==
    \E ct \in ContentTypes, id \in IdStrings,
       b \in ResourceBodies(models["User"], "User") :
        LET req == [Request("Update", "User", id, NoFault) EXCEPT
                       !.data = b.data, !.hasAttributes = b.hasAttributes,
                       !.attributes = b.attributes, !.relationships = b.relationships]
        IN Route("PATCH", ct, req, UpdateRun(models, fkChecks, Start(req)))

RouterGet ==
    \E ct \in ContentTypes, id \in IdStrings :
        LET req == Request("GetSingle", "User", id, NoFault)
        IN Route("GET", ct, req, GetSingleRun(models, fkChecks, Start(req)))

RouterDelete ==
    \E ct \in ContentTypes, id \in IdStrings :
        LET req == Request("Delete", "User", id, NoFault)
        IN Route("DELETE", ct, req, DeleteRun(models, fkChecks, Start(req)))

NextMedia ==
    \/ RouterPost
    \/ RouterPatch
    \/ RouterGet
    \/ RouterDelete
    \/ Finish

SpecMedia == Init /\ [][NextMedia]_vars

-----------------------------------------------------------------------------
(* SpecConc: two requests in flight, interleaved at their persistence calls *)

\* A store with every user and every post, each post with any user or none
SeededStores ==
    { [m \in Models |->
        CASE m = "User" ->
               [k \in 1..MaxId |-> [id |-> k, name |-> "a"]]
          [] m = "Post" ->
               [k \in 1..MaxId |-> [id |-> k, title |-> "a", userId |-> owner[k]]]
          [] OTHER -> <<>>] :
      owner \in [1..MaxId -> {NULL} \cup (1..MaxId)] }

\* The requests sent while another is in flight: replacements of a user's
\* posts, and reads of the relationship and of the user
ConcurrentRequests ==
    { [Request("UpdateRelationship", "User", id, NoFault) EXCEPT
          !.relationship = "posts", !.data = [shape |-> "array", ids |-> l]] :
        id \in IdStrings, l \in IdLists(MaxList) }
    \cup { [Request("GetRelationship", "User", id, NoFault) EXCEPT
               !.relationship = "posts"] : id \in IdStrings }
    \cup { Request("GetSingle", "User", id, NoFault) : id \in IdStrings }

InitConc ==
    /\ models = TestModels
    /\ fkChecks \in BOOLEAN
    /\ db \in SeededStores
    /\ nextId = [m \in Models |-> IF m = "Profile" THEN 1 ELSE MaxId + 1]
    /\ h = [s \in Slots |-> Idle]
    /\ arg = NoArg

\* A request arrives and its handler is called
Receive(s) ==
    /\ h[s].pc = "idle"
    /\ \E req \in ConcurrentRequests : h' = [h EXCEPT ![s] = Invocation(req)]
    /\ UNCHANGED <<models, fkChecks, db, nextId, arg>>

\* The handler in the slot runs up to its next persistence call: r is the outcome
Proceed(s, op, r) ==
    /\ h[s].pc \notin {"idle", "done"}
    /\ h[s].req.op = op
    /\ db' = r.db
    /\ nextId' = r.nextId
    /\ h' = [h EXCEPT ![s] = r.c]
    /\ UNCHANGED <<models, fkChecks, arg>>

StepUpdateRelationship(s) ==
    Proceed(s, "UpdateRelationship",
            UpdateRelationshipStep(models, fkChecks, St(db, nextId, h[s])))

StepGetRelationship(s) ==
    Proceed(s, "GetRelationship", GetRelationshipStep(models, St(db, nextId, h[s])))

StepGetSingle(s) ==
    Proceed(s, "GetSingle", GetSingleStep(models, St(db, nextId, h[s])))

NextConc ==
    \E s \in Slots :
        \/ Receive(s)
        \/ StepUpdateRelationship(s)
        \/ StepGetRelationship(s)
        \/ StepGetSingle(s)

SpecConc == InitConc /\ [][NextConc]_vars

-----------------------------------------------------------------------------
(* SpecNames: relationship names resolved on models of any associations *)

\* Associations a model may declare, each under its own alias
AssociationPool ==
    {Association("HasMany", "posts", "userId", "Post"),
     Association("HasMany", "Posts", "ownerId", "Post"),
     Association("HasMany", "editedPosts", "editorId", "Post"),
     Association("HasOne", "profile", "userId", "Profile"),
     Association("HasOne", "manager", "managedId", "Profile"),
     Association("BelongsTo", "boss", "managerId", "User"),
     Association("BelongsTo", "user", "userId", "User")}

\* The lists of at most n associations of the pool, no association twice
RECURSIVE AssociationLists(_)
AssociationLists(n) ==
    IF n = 0 THEN {<<>>}
    ELSE AssociationLists(n - 1)
         \cup { Append(l, a) : l \in { x \in AssociationLists(n - 1) : Len(x) = n - 1 },
                               a \in AssociationPool }

\* No association is declared twice
Distinct(l) == \A i, j \in 1..Len(l) : l[i] = l[j] => i = j

InitNames ==
    /\ \E l \in { x \in AssociationLists(MaxAssoc) : Distinct(x) } :
          models = [m \in Models |-> IF m = "User" THEN l ELSE <<>>]
    /\ fkChecks = TRUE
    /\ db = [m \in Models |-> <<>>]
    /\ nextId = [m \in Models |-> 1]
    /\ h = [s \in Slots |-> Idle]
    /\ arg = NoArg

\* A relationship endpoint resolves the name a resource object gave the i-th
\* association of the model
Resolve ==
    \E i \in 1..Len(models["User"]) :
        /\ arg' = [f |-> "findAssociationByRelationshipName",
                   in |-> <<i, RelationshipName(models["User"][i])>>,
                   out |-> <<findAssociationByRelationshipName(
                                models["User"], RelationshipName(models["User"][i]))>>]
        /\ UNCHANGED <<models, fkChecks, db, nextId, h>>

NextNames == Resolve

SpecNames == InitNames /\ [][NextNames]_vars

-----------------------------------------------------------------------------
(* SpecFilter: the filter of one field parsed *)

MaxKeys == 2

\* The keys a value object may have: the operators and one other key
FilterKeys == operatorMap \cup {"between"}

\* The value objects of at most n keys, in the order of their keys
RECURSIVE FilterValues(_)
FilterValues(n) ==
    IF n = 0 THEN {<<>>}
    ELSE FilterValues(n - 1)
         \cup { Append(v, [key |-> key, value |-> StringValue(parts)]) :
                  v \in { x \in FilterValues(n - 1) : Len(x) = n - 1 },
                  key \in FilterKeys, parts \in {<<"5">>, <<"1", "2">>} }

\* Object keys are unique
DistinctKeys(value) == \A i, j \in 1..Len(value) : value[i].key = value[j].key => i = j

InitFilter ==
    /\ models = TestModels
    /\ fkChecks = TRUE
    /\ db = [m \in Models |-> <<>>]
    /\ nextId = [m \in Models |-> 1]
    /\ h = [s \in Slots |-> Idle]
    /\ \E value \in { x \in FilterValues(MaxKeys) : x # <<>> /\ DistinctKeys(x) } :
          arg = [f |-> "filter", in |-> <<value>>, out |-> <<>>]

ParseFilter ==
    /\ arg.f = "filter"
    /\ arg' = [f |-> "parseFilterParameters", in |-> arg.in,
               out |-> <<parseFilterParameters(arg.in[1])>>]
    /\ UNCHANGED <<models, fkChecks, db, nextId, h>>

NextFilter == ParseFilter

SpecFilter == InitFilter /\ [][NextFilter]_vars

-----------------------------------------------------------------------------
(* Properties of the relationship writes *)

\* The rows of a table that reference the row with this key through the column
Referencing(d, modelName, column, key) ==
    { k \in DOMAIN d[modelName] : d[modelName][k][column] = key }

\* The rows of a table that a list of id strings names
Named(d, modelName, ids) ==
    { k \in DOMAIN d[modelName] : String(k) \in Range(ids) }

\* The invocation has answered a relationship write of this kind with 200
Replaced(c, associationType) ==
    /\ c.pc = "done"
    /\ c.req.op = "UpdateRelationship"
    /\ c.associationType = associationType
    /\ c.res.sent = 1
    /\ c.res.status = 200

\* The linkage lists exactly these rows of the table, each once
ListsExactly(data, modelName, keys) ==
    /\ data.k = "many"
    /\ Len(data.v) = Cardinality(keys)
    /\ { data.v[i] : i \in 1..Len(data.v) }
         = { [id |-> String(k), type |-> modelName] : k \in keys }

\* C1: a step that handles a PATCH of a to-many relationship and answers 200
\* started from an existing parent; after it the target rows whose foreign key
\* is the parent id are exactly the existing target rows the list names, every
\* row related before and not named has a null foreign key, and the response
\* data lists exactly the rows now related.
C1_FullReplacement ==
    [][ (h[1].pc = "idle" /\ Replaced(h'[1], "HasMany")) =>
        LET c == h'[1]
            a == c.association
            parentId == ToKey(c.req.id)
            before == Referencing(db, a.target, a.foreignKey, parentId)
            after == Referencing(db', a.target, a.foreignKey, parentId)
            named == Named(db, a.target, c.req.data.ids)
        IN /\ parentId \in DOMAIN db[c.req.model]
           /\ DOMAIN db'[a.target] = DOMAIN db[a.target]
           /\ after = named
           /\ \A k \in before \ named : db'[a.target][k][a.foreignKey] = NULL
           /\ ListsExactly(c.res.body.data, a.target, after)
      ]_vars

\* A to-many PATCH answered 200 whose list names no existing row and left out
\* a row that was related: the row was cleared and the id skipped
C1_Witness ==
    /\ Replaced(h[1], "HasMany")
    /\ h[1].req.data.ids # <<>>
    /\ Named(db, h[1].association.target, h[1].req.data.ids) = {}
    /\ h[1].cleared # <<>>
    /\ h[1].res.body.data = ManyLinkage(<<>>)

\* C3: when the client repeats a to-many PATCH that was answered 200, with the
\* same list and nothing in between, the second PATCH is answered 200 with the
\* same linkage and leaves every row as the first left it.
C3_Idempotent ==
    [][ (Replaced(h[1], "HasMany") /\ h[1].attempt = 1 /\ h'[1].attempt = 2) =>
        /\ h'[1].req = h[1].req
        /\ Replaced(h'[1], "HasMany")
        /\ h'[1].res.body.data = h[1].res.body.data
        /\ Referencing(db', h[1].association.target, h[1].association.foreignKey,
                       h[1].key)
             = Referencing(db, h[1].association.target, h[1].association.foreignKey,
                           h[1].key)
        /\ db' = db
      ]_vars

\* The second of two equal to-many PATCHes has been answered, its list naming
\* a row, with another row of the table left unrelated
C3_Witness ==
    /\ Replaced(h[1], "HasMany")
    /\ h[1].attempt = 2
    /\ h[1].res.body.data.v # <<>>
    /\ Referencing(db, h[1].association.target, h[1].association.foreignKey, NULL) # {}

\* The kind of relationship a request names, if its type has it
KindOf(req) ==
    findAssociationByRelationshipName(models[req.model], req.relationship).associationType

\* The linkage of a relationship write has the wrong shape for the kind
WrongShape(req) ==
    \/ KindOf(req) = "HasMany" /\ req.data.shape \in {"null", "object", "scalar"}
    \/ KindOf(req) \in {"HasOne", "BelongsTo"} /\ req.data.shape \in {"array", "scalar"}

\* The answer is the 400 of a rejected linkage, and no row has changed
RejectedLinkage(c) ==
    /\ c.res.sent = 1
    /\ c.res.status = 400
    /\ Len(c.res.body.errors) = 1
    /\ c.res.body.errors[1].title = "Invalid Request"
    /\ c.res.body.errors[1].source = Pointer("/data")

\* A relationship write is handled, with no persistence call failing
Written(c) ==
    /\ h[1].pc = "idle"
    /\ c.pc = "done"
    /\ c.req.op = "UpdateRelationship"
    /\ c.req.fault = NoFault

LinkageRead(c) ==
    IF c.req.op = "GetRelationship" THEN c.res.body.data
    ELSE c.res.body.data.v[1].relationships["posts"].data

\* The reader answers 200 in this step, about the relationship the writer is
\* replacing, while the writer stands between its clear and its set
ReadsBetween(w, r) ==
    /\ w # r
    /\ h[w].pc = "set"
    /\ h[w].associationType = "HasMany"
    /\ h'[w] = h[w]
    /\ h[r].pc \notin {"idle", "done"}
    /\ h'[r].pc = "done"
    /\ h'[r].req.op \in {"GetRelationship", "GetSingle"}
    /\ h'[r].req.model = h[w].req.model
    /\ h'[r].req.id = h[w].req.id
    /\ h'[r].res.status = 200

\* C2: the to-many replacement clears and sets in two persistence steps, and a
\* GET of the relationship or of the parent that reads between the two is
\* answered with an empty linkage, whatever the linkage was before and
\* whatever the list names.
C2_EmptyBetweenClearAndSet ==
    [][ \A w, r \in Slots :
          ReadsBetween(w, r) => LinkageRead(h'[r]) = ManyLinkage(<<>>) ]_vars

\* A reader has been answered an empty linkage between the clear and the set
\* of a writer that cleared a related row and whose list names an existing row
C2_Witness ==
    \E w, r \in Slots :
        /\ w # r
        /\ h[w].pc = "set"
        /\ h[w].cleared # <<>>
        /\ Named(db, h[w].association.target, h[w].relatedIds) # {}
        /\ h[r].pc = "done"
        /\ h[r].req.op \in {"GetRelationship", "GetSingle"}
        /\ h[r].req.id = h[w].req.id
        /\ h[r].res.status = 200
        /\ LinkageRead(h[r]) = ManyLinkage(<<>>)

\* C6: a step that handles a PATCH of a has-one relationship and answers 200
\* leaves the identified target row, if it exists, as the only row whose
\* foreign key is the parent id, and leaves no such row if data is null or
\* identifies no existing row.
C6_HasOneExclusive ==
    [][ (h[1].pc = "idle" /\ Replaced(h'[1], "HasOne")) =>
        LET c == h'[1]
            a == c.association
            identified == IF c.req.data.shape = "object"
                          THEN Named(db, a.target, c.req.data.ids)
                          ELSE {}
        IN /\ Cardinality(identified) <= 1
           /\ Referencing(db', a.target, a.foreignKey, ToKey(c.req.id)) = identified
      ]_vars

\* A has-one PATCH answered 200 moved the parent from one existing row to another
C6_Witness ==
    /\ Replaced(h[1], "HasOne")
    /\ h[1].cleared # <<>>
    /\ Named(db, h[1].association.target, h[1].req.data.ids) # {}
    /\ Named(db, h[1].association.target, h[1].req.data.ids)
         \cap Range(h[1].cleared) = {}
    /\ h[1].res.body.data.k = "one"

-----------------------------------------------------------------------------
(* Properties of the reads *)

\* The answer GET /{type}/:id/relationships/:rel would give in this store
RelationshipAnswer(d, modelName, key, rel) ==
    GetRelationshipRun(models, fkChecks,
        St(d, nextId, Invocation([Request("GetRelationship", modelName, String(key),
                                          NoFault) EXCEPT !.relationship = rel]))).c.res

\* The answer the non-simple GET /{type}/:id would give in this store
ResourceAnswer(d, modelName, key) ==
    GetSingleRun(models, fkChecks,
        St(d, nextId, Invocation(Request("GetSingle", modelName, String(key),
                                         NoFault)))).c.res

\* The linkage the resource document shows for the relationship
LinkageShown(res, rel) == res.body.data.v[1].relationships[rel].data

\* C4 as stated: in every state between two requests, for every existing
\* resource and every relationship of its type, the relationship endpoint
\* answers with the linkage the resource document shows.
C4_EndpointMatchesResource ==
    h[1].pc = "idle" =>
        \A m \in Models : \A k \in DOMAIN db[m] : \A i \in 1..Len(models[m]) :
            LET rel == RelationshipName(models[m][i])
            IN /\ RelationshipAnswer(db, m, k, rel).status = 200
               /\ ResourceAnswer(db, m, k).status = 200
               /\ RelationshipAnswer(db, m, k, rel).body.data
                    = LinkageShown(ResourceAnswer(db, m, k), rel)

\* The linkage a belongs-to write asks for
LinkageAsked(req, target) ==
    IF req.data.shape = "object"
    THEN OneLinkage([id |-> req.data.ids[1], type |-> target])
    ELSE NullLinkage

\* C5 as stated: a step that handles a PATCH of a belongs-to relationship and
\* answers 200 changes the foreign key of the parent row and nothing else, to
\* null or to the id given; the response and a GET of the parent after it show
\* the linkage that was asked for.
C5_BelongsToWritten ==
    [][ (h[1].pc = "idle" /\ Replaced(h'[1], "BelongsTo")) =>
        LET c == h'[1]
            a == c.association
            m == c.req.model
            k == ToKey(c.req.id)
            newValue == IF c.req.data.shape = "object" THEN ToKey(c.req.data.ids[1])
                        ELSE NULL
        IN /\ k \in DOMAIN db[m]
           /\ db' = [db EXCEPT ![m][k][a.foreignKey] = newValue]
           /\ c.res.body.data = LinkageAsked(c.req, a.target)
           /\ LinkageShown(ResourceAnswer(db', m, k), a.foreignKey)
                = LinkageAsked(c.req, a.target)
      ]_vars

-----------------------------------------------------------------------------
(* Properties of relationship names and of documents *)

\* C8 as stated: the name derived from an association of a type resolves to
\* that association and its kind, and no two associations of the type have
\* the same derived name.
C8_NamesReversible ==
    arg.f = "findAssociationByRelationshipName" =>
        /\ arg.out[1].association = models["User"][arg.in[1]]
        /\ arg.out[1].associationType = models["User"][arg.in[1]].associationType
        /\ \A j \in 1..Len(models["User"]) :
              j # arg.in[1] => RelationshipName(models["User"][j]) # arg.in[2]

\* C9: a body that was sent never has both a data and an errors member; sent
\* with an error status it has errors, at least one, and no data; sent with
\* 200 or 201 it has data and no errors.
C9_DataXorErrors ==
    \A s \in Slots :
        h[s].res.sent > 0 =>
            LET res == h[s].res
                m == res.body.members
            IN /\ ~("data" \in m /\ "errors" \in m)
               /\ res.status >= 400 =>
                     ("errors" \in m /\ "data" \notin m /\ res.body.errors # <<>>
                      /\ res.body.data = NoData)
               /\ res.status \in {200, 201} =>
                     ("data" \in m /\ "errors" \notin m /\ res.body.errors = <<>>
                      /\ res.body.data # NoData)

\* A validation error of the persistence engine has been answered with 422
C9_Witness ==
    /\ h[1].res.sent = 1
    /\ h[1].res.status = 422
    /\ h[1].req.op = "Update"
    /\ h[1].res.body.members = {"jsonapi", "errors"}
    /\ ToKey(h[1].req.id) \in DOMAIN db[h[1].req.model]

\* C10 as stated: no included list that was sent has two entries of the same
\* type and id.
C10_IncludedDeduplicated ==
    \A s \in Slots :
        ("included" \in h[s].res.body.members) =>
            LET included == h[s].res.body.included
            IN /\ included # <<>>
               /\ \A i, j \in 1..Len(included) :
                     (included[i].type = included[j].type
                      /\ included[i].id = included[j].id) => i = j

-----------------------------------------------------------------------------
(* Properties of resource documents *)

\* The identifiers in the to-many and has-one linkage of a resource object
LinkedIdentifiers(assocList, resourceObject) ==
    UNION { Range(resourceObject.relationships[RelationshipName(assocList[i])].data.v) :
              i \in { j \in 1..Len(assocList) :
                        assocList[j].associationType \in {"HasMany", "HasOne"} } }

\* Whether the body has a resource object of the identifier's type and id in
\* its included member
IsIncluded(body, identifier) ==
    /\ "included" \in body.members
    /\ \E i \in 1..Len(body.included) :
          /\ body.included[i].type = identifier.type
          /\ body.included[i].id = identifier.id

\* A 200 answer of GetSingle without simple, of GetList with an id filter or
\* of Update
IsFullAnswer(c) ==
    /\ c.res.sent > 0
    /\ c.res.status = 200
    /\ \/ c.req.op = "GetSingle" /\ ~TruthyString(c.req.simple)
       \/ c.req.op = "GetList" /\ c.req.hasFilter
       \/ c.req.op = "Update"

\* C11 as stated: in the 200 answer of a non-simple GetSingle, a filtered
\* GetList or an Update, every resource identifier in a to-many or has-one
\* linkage of the primary data has a resource object of the same type and id
\* in included.
C11_LinkedAreIncluded ==
    IsFullAnswer(h[1]) =>
        \A i \in 1..Len(h[1].res.body.data.v) :
            \A identifier \in LinkedIdentifiers(models[h[1].req.model],
                                                h[1].res.body.data.v[i]) :
                IsIncluded(h[1].res.body, identifier)

\* A 200 or 201 answer built in non-simple mode: of Create, of Update, of
\* GetSingle without simple or of GetList with an id filter
IsNonSimpleAnswer(c) ==
    /\ c.res.sent > 0
    /\ \/ IsFullAnswer(c)
       \/ c.req.op = "Create" /\ c.res.status = 201

\* C12: in a non-simple answer every resource object of the primary data has
\* a relationships member with one entry per association of its type (none
\* for a type without associations), a to-many association that no row
\* refers to has the empty list as linkage, and included is a member only
\* when it is not empty and never when no related row was loaded.
C12_RelationshipsPresentIncludedNotEmpty ==
    IsNonSimpleAnswer(h[1]) =>
        LET body == h[1].res.body
        IN /\ \A i \in 1..Len(body.data.v) :
                LET r == body.data.v[i]
                    assocList == models[r.type]
                IN /\ r.hasRelationships
                   /\ DOMAIN r.relationships
                        = { RelationshipName(assocList[j]) : j \in 1..Len(assocList) }
                   /\ \A j \in 1..Len(assocList) :
                         (assocList[j].associationType = "HasMany"
                          /\ Referencing(db, assocList[j].target,
                                         assocList[j].foreignKey, ToKey(r.id)) = {})
                         => r.relationships[RelationshipName(assocList[j])].data
                              = ManyLinkage(<<>>)
           /\ "included" \in body.members => body.included # <<>>
           /\ (\A i \in 1..Len(body.data.v) :
                  LinkedIdentifiers(models[body.data.v[i].type], body.data.v[i]) = {})
              => "included" \notin body.members

\* A row of the type without associations has been read in non-simple mode:
\* its relationships member is the empty object
C12_Witness ==
    /\ h[1].req.op = "GetSingle"
    /\ h[1].req.model = "Profile"
    /\ IsNonSimpleAnswer(h[1])
    /\ models["Profile"] = <<>>
    /\ h[1].res.body.data.v[1].hasRelationships
    /\ h[1].res.body.data.v[1].relationships = <<>>
    /\ "included" \notin h[1].res.body.members

\* C13 as stated: a 200 answer of GetSingle has, when simple is true, no
\* relationships on data, no included and no top-level links; when simple is
\* absent or false, a relationships member whose entries each have
\* links.self and links.related, and a top-level links.self.
C13_SimpleSelectsShape ==
    (h[1].req.op = "GetSingle" /\ h[1].res.sent > 0 /\ h[1].res.status = 200) =>
        LET body == h[1].res.body
            r == body.data.v[1]
        IN /\ h[1].req.simple = "true" =>
                /\ ~r.hasRelationships
                /\ "included" \notin body.members
                /\ "links" \notin body.members
           /\ h[1].req.simple \in {"undefined", "false"} =>
                /\ r.hasRelationships
                /\ \A name \in DOMAIN r.relationships :
                      /\ r.relationships[name].links.self # ""
                      /\ r.relationships[name].links.related # ""
                /\ "links" \in body.members
                /\ body.links.self # ""

-----------------------------------------------------------------------------
(* Properties of the Content-Type middleware *)

\* The media type of a header value, and whether a parameter follows it
BaseType(contentType) ==
    IF Falsy(contentType) THEN "" ELSE contentType.value[1]
HasParameter(contentType) ==
    \E i \in 1..Len(contentType.value) : contentType.value[i] = "charset=utf-8"

\* The answer is the error document with this status, title and detail and
\* no persistence call was made
Rejected(c, status, title, detail) ==
    /\ c.res.sent = 1
    /\ c.res.status = status
    /\ c.calls = 0
    /\ c.res.body.members = {"jsonapi", "errors"}
    /\ Len(c.res.body.errors) = 1
    /\ c.res.body.errors[1].title = title
    /\ c.res.body.errors[1].detail = detail

ParametersDetail ==
    "Content-Type header must be application/vnd.api+json without media type parameters"

\* C14 as stated: on POST and PATCH no header (or an empty one) gives 400, a
\* value with another base type gives 415, the base type
\* application/vnd.api+json followed by any parameter gives 415 with the
\* detail about media type parameters, and only the exact value reaches the
\* handler, the others making no persistence call; GET and DELETE always
\* reach the handler.
C14_ContentTypeClassified ==
    (arg.f = "validateContentType" /\ h[1].pc = "done") =>
        LET method == arg.in[1]
            contentType == arg.in[2]
        IN IF method \in {"POST", "PATCH"}
           THEN /\ Falsy(contentType) =>
                    Rejected(h[1], 400, "Missing Content-Type",
                        "Content-Type header is required for requests with a body")
                /\ (~Falsy(contentType) /\ BaseType(contentType) # JSONAPI_CONTENT_TYPE)
                    => Rejected(h[1], 415, "Unsupported Media Type",
                                h[1].res.body.errors[1].detail)
                /\ (BaseType(contentType) = JSONAPI_CONTENT_TYPE
                    /\ HasParameter(contentType))
                    => Rejected(h[1], 415, "Unsupported Media Type", ParametersDetail)
                /\ arg.out[1] = "next"
                    <=> contentType = HeaderValue(<<JSONAPI_CONTENT_TYPE>>)
           ELSE arg.out[1] = "next"

-----------------------------------------------------------------------------
(* Properties of resource objects *)

\* The resource objects of a body: its primary data and its included member
ResourceObjects(body) ==
    (IF body.data.k \in {"resource", "resources"} THEN Range(body.data.v) ELSE {})
    \cup (IF "included" \in body.members THEN Range(body.included) ELSE {})

\* The fields of a type that are not attributes: the primary key, the alias
\* of every association and the foreign key of every belongs-to
NotAttributes(assocList) ==
    {"id"}
    \cup { Join(assocList[i].as) : i \in 1..Len(assocList) }
    \cup { assocList[i].foreignKey :
             i \in { j \in 1..Len(assocList) :
                       assocList[j].associationType = "BelongsTo" } }

C16_BelongsToFromForeignKey ==
    (h[1].res.sent > 0 /\ h[1].res.status \in {200, 201}) =>
        \A r \in ResourceObjects(h[1].res.body) :
            r.hasRelationships =>
                \A i \in 1..Len(models[r.type]) :
                    LET a == models[r.type][i]
                        v == db[r.type][ToKey(r.id)][a.foreignKey]
                    IN a.associationType = "BelongsTo" =>
                          r.relationships[a.foreignKey].data
                            = IF v = NULL THEN NullLinkage
                              ELSE OneLinkage([id |-> String(v), type |-> a.target])

\* A post whose foreign key names a user that does not exist has been read:
\* its linkage is that user's identifier
C16_Witness ==
    /\ h[1].req.op = "GetSingle"
    /\ h[1].req.model = "Post"
    /\ IsFullAnswer(h[1])
    /\ db["Post"][ToKey(h[1].req.id)]["userId"] # NULL
    /\ db["Post"][ToKey(h[1].req.id)]["userId"] \notin DOMAIN db["User"]
    /\ h[1].res.body.data.v[1].relationships["userId"].data.k = "one"

\* C17 as stated: GetRelated with a relationship name that resolves to no
\* association of the type answers 404 with an error document: errors, at
\* least one, and no data.
C17_UnknownRelationshipIs404 ==
    (h[1].pc = "done" /\ h[1].req.op = "GetRelated"
       /\ findAssociationByRelationshipName(
              models[h[1].req.model], h[1].req.relationship).association
            = NoAssociation)
    => /\ h[1].res.sent = 1
       /\ h[1].res.status = 404
       /\ "errors" \in h[1].res.body.members
       /\ "data" \notin h[1].res.body.members
       /\ h[1].res.body.errors # <<>>

-----------------------------------------------------------------------------
(* Properties of writes of a resource *)

\* The answer GET /{type}/:id?simple=true would give in this store
SimpleAnswer(d, modelName, key) ==
    GetSingleRun(models, fkChecks,
        St(d, nextId, Invocation([Request("GetSingle", modelName, String(key),
                                          NoFault) EXCEPT !.simple = "true"]))).c.res

\* The invocation has answered a POST with 201
Created(c) == c.pc = "done" /\ c.req.op = "Create" /\ c.res.status = 201

\* The attribute map a simple GET of the created row returns
AttributesRead(c) ==
    SimpleAnswer(db, c.req.model, c.key).body.data.v[1].attributes

ForeignKeyNamed(req, a) ==
    IF req.relationships[a.foreignKey].k = "one"
    THEN ToKey(req.relationships[a.foreignKey].id) ELSE NULL

\* The row a PATCH is to leave: a belongs-to foreign key named in
\* data.relationships is set from it, a supplied attribute is set to its
\* value or to null for '', every other column is kept
RowPatched(assocList, row, req) ==
    [col \in DOMAIN row |->
        IF \E i \in 1..Len(assocList) :
              /\ assocList[i].associationType = "BelongsTo"
              /\ assocList[i].foreignKey = col
              /\ col \in DOMAIN req.relationships
        THEN ForeignKeyNamed(req, [foreignKey |-> col])
        ELSE IF col \in DOMAIN req.attributes
        THEN IF req.attributes[col] = "" THEN NullAttribute ELSE req.attributes[col]
        ELSE row[col]]

\* Whether the database rejects the foreign keys the PATCH names
ForeignKeyRejected(assocList, d, req) ==
    \E i \in 1..Len(assocList) :
        /\ assocList[i].associationType = "BelongsTo"
        /\ assocList[i].foreignKey \in DOMAIN req.relationships
        /\ fkChecks
        /\ ForeignKeyNamed(req, assocList[i]) # NULL
        /\ ForeignKeyNamed(req, assocList[i]) \notin DOMAIN d[assocList[i].target]

Arrives(c, ops) ==
    /\ h[1].pc = "idle"
    /\ c.pc = "done"
    /\ c.req.op \in ops
    /\ c.req.fault = NoFault

\* The row the request names was created and has been deleted
Deleted(req) ==
    /\ ToKey(req.id) \notin DOMAIN db[req.model]
    /\ ToKey(req.id) >= 1
    /\ ToKey(req.id) < nextId[req.model]

\* The answer is the 404 error document of a missing resource
IsNotFound(res) ==
    /\ res.sent = 1
    /\ res.status = 404
    /\ res.body.members = {"jsonapi", "errors"}
    /\ res.body.errors[1].title = "Resource Not Found"

\* The step answers a DELETE of an existing row with 204 and no body and
\* removes that row; it answers a DELETE of a missing row with 404 and
\* changes nothing
DeleteRemoves ==
    Arrives(h'[1], {"Delete"}) =>
        LET req == h'[1].req
            k == ToKey(req.id)
        IN IF k \in DOMAIN db[req.model]
           THEN /\ h'[1].res.sent = 1
                /\ h'[1].res.status = 204
                /\ h'[1].res.body = EmptyBody
                /\ DOMAIN db'[req.model] = DOMAIN db[req.model] \ {k}
                /\ \A j \in DOMAIN db'[req.model] : db'[req.model][j] = db[req.model][j]
           ELSE IsNotFound(h'[1].res) /\ db' = db

\* C20 as stated: DELETE of an existing row removes it and answers 204 with
\* an empty body, DELETE of a missing row answers 404 and removes nothing, and
\* every GET, PATCH or DELETE of the id of a deleted row answers 404.
C20_AsStated ==
    [][ /\ DeleteRemoves
        /\ (Arrives(h'[1], {"GetSingle", "Update", "Delete"}) /\ Deleted(h'[1].req))
             => IsNotFound(h'[1].res) /\ db' = db
      ]_vars

\* C20: DELETE of an existing row removes it and answers 204 with an empty
\* body, DELETE of a missing row answers 404 and removes nothing, and every
\* GET, DELETE and PATCH with data and data.attributes of the id of a deleted
\* row answers 404; a PATCH without them answers 400. None of these changes
\* the store.
C20_DeletedStays404 ==
    [][ /\ DeleteRemoves
        /\ (Arrives(h'[1], {"GetSingle", "Update", "Delete"}) /\ Deleted(h'[1].req))
             => /\ db' = db
                /\ IF h'[1].req.op = "Update" /\ ~h'[1].req.hasAttributes
                   THEN h'[1].res.status = 400
                   ELSE IsNotFound(h'[1].res)
      ]_vars

\* A user that was created and deleted has been asked for again: 404
C20_Witness ==
    /\ h[1].pc = "done"
    /\ h[1].req.op \in {"GetSingle", "Update"}
    /\ h[1].req.model = "User"
    /\ h[1].req.fault = NoFault
    /\ Deleted(h[1].req)
    /\ IsNotFound(h[1].res)

-----------------------------------------------------------------------------
(* Properties of lists *)

\* A 200 answer of GetList
IsList(c) == c.req.op = "GetList" /\ c.res.sent > 0 /\ c.res.status = 200

\* The primary data are exactly these rows of the type, each once
ListsRows(c, keys) ==
    /\ Len(c.res.body.data.v) = Cardinality(keys)
    /\ { c.res.body.data.v[i].id : i \in 1..Len(c.res.body.data.v) }
         = { String(k) : k \in keys }
    /\ \A i \in 1..Len(c.res.body.data.v) : c.res.body.data.v[i].type = c.req.model

\* Whether every resource object of the primary data has relationships
AllWithRelationships(c, with) ==
    \A i \in 1..Len(c.res.body.data.v) : c.res.body.data.v[i].hasRelationships = with

\* C21 as stated: a list with filter[id] returns exactly the rows whose key
\* is in the filter, each with relationships; a list with no filter returns
\* every row without relationships and has no included member.
C21_AsStated ==
    IsList(h[1]) =>
        IF h[1].req.hasFilter
        THEN /\ ListsRows(h[1], Named(db, h[1].req.model, h[1].req.filterId))
             /\ AllWithRelationships(h[1], TRUE)
        ELSE /\ ListsRows(h[1], DOMAIN db[h[1].req.model])
             /\ AllWithRelationships(h[1], FALSE)
             /\ "included" \notin h[1].res.body.members

\* C21: a list with filter[id] returns exactly the rows whose key is in the
\* filter, each with relationships; a list with no filter returns every row,
\* without relationships when the request has no include parameter and with
\* relationships when it has one, and has no included member.
C21_ListSelects ==
    IsList(h[1]) =>
        IF h[1].req.hasFilter
        THEN /\ ListsRows(h[1], Named(db, h[1].req.model, h[1].req.filterId))
             /\ AllWithRelationships(h[1], TRUE)
        ELSE /\ ListsRows(h[1], DOMAIN db[h[1].req.model])
             /\ AllWithRelationships(h[1], h[1].req.include # "undefined")
             /\ "included" \notin h[1].res.body.members

\* Two ids were asked for in a table of two rows: both rows are listed
C21_Witness ==
    /\ IsList(h[1])
    /\ h[1].req.hasFilter
    /\ Len(h[1].req.filterId) = 2
    /\ h[1].req.filterId[1] # h[1].req.filterId[2]
    /\ Len(h[1].res.body.data.v) = 2
    /\ h[1].res.body.data.v[1].hasRelationships

-----------------------------------------------------------------------------
(* Properties of filters *)

\* The comparison a recognised operator key is translated to
Translated(entry) ==
    IF entry.key = "in" THEN ListValue(entry.value.parts) ELSE entry.value

\* C22 as stated: when every key of the value object is a recognised
\* operator the predicate has exactly one comparison per key, the one the key
\* translates to; when some key is not, the predicate is the value object
\* itself and nothing else, wherever that key stands.
C22_OperatorsOrLiteral ==
    arg.f = "parseFilterParameters" =>
        LET value == arg.in[1]
            where == arg.out[1]
        IN IF \A i \in 1..Len(value) : value[i].key \in operatorMap
           THEN /\ ~where.isValue
                /\ DOMAIN where.symbols = { value[i].key : i \in 1..Len(value) }
                /\ \A i \in 1..Len(value) :
                      where.symbols[value[i].key] = Translated(value[i])
           ELSE where = [isValue |-> TRUE, symbols |-> <<>>]

-----------------------------------------------------------------------------
(* SpecErrors: the persistence engine fails with errors that carry a text *)

\* error.message of two database errors
EngineMessages == {"SQLITE_ERROR: no such table: Users", "SQLITE_BUSY: database is locked"}

\* error.errors of a validation error: one or two failed field constraints
FieldErrors ==
    LET items == { [message |-> "Validation notEmpty failed", path |-> "name"],
                   [message |-> "Validation len failed", path |-> "email"] }
    IN { <<x>> : x \in items } \cup { <<x, y>> : x \in items, y \in items }

\* The persistence calls of one request that may be the failing one
FaultPoints == 1..3

\* The errors the engine throws at a call of a handler
EngineErrors(op) ==
    { [at |-> n, name |-> "SequelizeDatabaseError", errors |-> <<>>, message |-> msg] :
         n \in FaultPoints, msg \in EngineMessages }
    \cup IF op \in {"Create", "Update", "UpdateRelationship"}
         THEN { [at |-> n, name |-> "SequelizeValidationError", errors |-> e,
                 message |-> "Validation error"] : n \in 1..2, e \in FieldErrors }
         ELSE {}

CreateFailing ==
    \E m \in UserAndPost, f \in EngineErrors("Create") :
        /\ nextId[m] <= MaxId
        /\ Handle(CreateRun(models, fkChecks, Start(
              [Request("Create", m, "", f) EXCEPT
                  !.data = [shape |-> "object", ids |-> <<>>], !.hasAttributes = TRUE,
                  !.attributes = [col \in {PlainColumn(m)} |-> "a"]])))

UpdateFailing ==
    \E id \in IdStrings, f \in EngineErrors("Update") :
        Handle(UpdateRun(models, fkChecks, Start(
            [Request("Update", "User", id, f) EXCEPT
                !.data = [shape |-> "object", ids |-> <<>>], !.hasAttributes = TRUE,
                !.attributes = [col \in {PlainColumn("User")} |-> "a"]])))

DeleteFailing ==
    \E id \in IdStrings, f \in EngineErrors("Delete") :
        Handle(DeleteRun(models, fkChecks, Start(Request("Delete", "User", id, f))))

GetSingleFailing ==
    \E id \in IdStrings, f \in EngineErrors("GetSingle") :
        Handle(GetSingleRun(models, fkChecks, Start(Request("GetSingle", "User", id, f))))

GetListFailing ==
    \E f \in EngineErrors("GetList") :
        Handle(GetListRun(models, fkChecks, Start(Request("GetList", "User", "", f))))

GetRelatedFailing ==
    \E id \in IdStrings, f \in EngineErrors("GetRelated") :
        Handle(GetRelatedRun(models, fkChecks, Start(
            [Request("GetRelated", "User", id, f) EXCEPT !.relationship = "posts"])))

GetRelationshipFailing ==
    \E id \in IdStrings, f \in EngineErrors("GetRelationship") :
        Handle(GetRelationshipRun(models, fkChecks, Start(
            [Request("GetRelationship", "User", id, f) EXCEPT !.relationship = "posts"])))

UpdateRelationshipFailing ==
    \E id \in IdStrings, l \in IdLists(1), f \in EngineErrors("UpdateRelationship") :
        Handle(UpdateRelationshipRun(models, fkChecks, Start(
            [Request("UpdateRelationship", "User", id, f) EXCEPT
                !.relationship = "posts", !.data = [shape |-> "array", ids |-> l]])))

NextErrors ==
    \/ CreateFailing
    \/ UpdateFailing
    \/ DeleteFailing
    \/ GetSingleFailing
    \/ GetListFailing
    \/ GetRelatedFailing
    \/ GetRelationshipFailing
    \/ UpdateRelationshipFailing
    \/ Finish

SpecErrors == Init /\ [][NextErrors]_vars

\* The invocation that answers a request received in the given store
AnswerTo(req, rows, ids) ==
    LET st == St(rows, ids, Invocation(req))
    IN CASE req.op = "Create" -> CreateRun(models, fkChecks, st).c
         [] req.op = "Update" -> UpdateRun(models, fkChecks, st).c
         [] req.op = "Delete" -> DeleteRun(models, fkChecks, st).c
         [] req.op = "GetSingle" -> GetSingleRun(models, fkChecks, st).c
         [] req.op = "GetList" -> GetListRun(models, fkChecks, st).c
         [] req.op = "GetRelated" -> GetRelatedRun(models, fkChecks, st).c
         [] req.op = "GetRelationship" -> GetRelationshipRun(models, fkChecks, st).c
         [] OTHER -> UpdateRelationshipRun(models, fkChecks, st).c

IsDatabaseError(fault) == fault.name = "SequelizeDatabaseError" /\ fault.at > 0

IsDatabaseError500(res) ==
    /\ res.sent = 1
    /\ res.status = 500
    /\ Len(res.body.errors) = 1
    /\ res.body.errors[1].title = "Database Error"

\* One entry per failed field constraint, in the order of error.errors
IsValidation422(res, fault) ==
    /\ res.sent = 1
    /\ Len(res.body.errors) = Len(fault.errors)
    /\ \A i \in 1..Len(fault.errors) :
          /\ res.body.errors[i].status = "422"
          /\ res.body.errors[i].source = Pointer("/data/attributes/" \o fault.errors[i].path)

\* C23: the answer to a request whose persistence call fails with a database
\* error is the same whatever the message of that error (a 500 'Database Error'
\* with the handler's fixed detail); a 422 answer has one entry per failed
\* field constraint, in order, each with status "422" and the pointer
\* /data/attributes/{field}.
C23_DatabaseErrorBodyIsFixed ==
    [][ (h[1].pc = "idle" /\ h'[1].pc = "done" /\ "message" \in DOMAIN h'[1].req.fault)
        => LET req == h'[1].req
               res == h'[1].res
           IN /\ IsDatabaseError(req.fault) =>
                    \A msg \in EngineMessages :
                       AnswerTo([req EXCEPT !.fault.message = msg], db, nextId).res = res
              /\ IsDatabaseError500(res) =>
                    res.body = ErrorBody(<<formatJsonApiError(500, "Database Error",
                                   DatabaseErrorDetail(req.op), NoSource)>>)
              /\ res.status = 422 => IsValidation422(res, req.fault) ]_vars

\* The second persistence call of an Update failed with a database error and
\* the request was answered 500
C23_Witness ==
    /\ h[1].pc = "done"
    /\ "message" \in DOMAIN h[1].req.fault
    /\ h[1].req.op = "Update"
    /\ IsDatabaseError(h[1].req.fault)
    /\ h[1].req.fault.at = 2
    /\ IsDatabaseError500(h[1].res)

\* The request lacks the member its handler requires
LacksRequiredMember(req) ==
    \/ req.op = "UpdateRelationship" /\ req.data.shape = "undefined"
    \/ req.op \in {"Create", "Update"}
       /\ (req.data.shape = "undefined" \/ ~req.hasAttributes)

IsInvalidRequest(res) ==
    /\ res.sent = 1
    /\ res.forwarded = 0
    /\ res.status = 400
    /\ Len(res.body.errors) = 1
    /\ res.body.errors[1].title = "Invalid Request"

\* C24: a relationship write without `data`, or a create / update without
\* `data` or `data.attributes`, is answered 400 'Invalid Request' with no
\* persistence call made and no row changed, also when the relationship name
\* is unknown, the addressed row is missing or the engine would fail.
C24_MissingMemberIs400BeforeAnyCall ==
    [][ (h[1].pc = "idle" /\ h'[1].pc = "done" /\ LacksRequiredMember(h'[1].req))
        => /\ IsInvalidRequest(h'[1].res)
           /\ h'[1].calls = 0
           /\ db' = db
           /\ nextId' = nextId ]_vars

\* A relationship write without `data`, for an unknown relationship of a
\* missing parent, was answered 400
C24_Witness ==
    /\ h[1].pc = "done"
    /\ h[1].req.op = "UpdateRelationship"
    /\ h[1].req.data.shape = "undefined"
    /\ h[1].req.relationship = "comments"
    /\ ToKey(h[1].req.id) \notin DOMAIN db[h[1].req.model]
    /\ IsInvalidRequest(h[1].res)

\* The relationship name of the request resolves to no association of its type
Unresolvable(req) ==
    findAssociationByRelationshipName(models[req.model], req.relationship).association
        = NoAssociation

IsRelationshipNotFound(res) ==
    /\ res.sent = 1
    /\ res.status = 404
    /\ res.body.members = {"jsonapi", "errors"}
    /\ res.body.errors[1].title = "Relationship Not Found"

\* The answer of a relationship request by name and parent: an unresolvable
\* name gives 'Relationship Not Found', a resolvable name on a missing parent
\* gives 'Resource Not Found', and no row changes in either case
NameBeforeParent(c) ==
    /\ Unresolvable(c.req) => (IsRelationshipNotFound(c.res) /\ c.calls = 0 /\ db' = db)
    /\ (~Unresolvable(c.req) /\ ToKey(c.req.id) \notin DOMAIN db[c.req.model])
          => (IsNotFound(c.res) /\ db' = db)

\* C25 as stated: every GetRelationship and UpdateRelationship request with an
\* unresolvable relationship name is answered 404 'Relationship Not Found'
\* whether or not the parent exists, one with a resolvable name and a missing
\* parent 404 'Resource Not Found', and no row is mutated.
C25_AsStated ==
    [][ Arrives(h'[1], {"GetRelationship", "UpdateRelationship"})
        => NameBeforeParent(h'[1]) ]_vars

\* C25: the same for every GetRelationship request and for every
\* UpdateRelationship request whose body has a `data` member.
C25_NameResolvedBeforeParent ==
    [][ (/\ Arrives(h'[1], {"GetRelationship", "UpdateRelationship"})
         /\ ~LacksRequiredMember(h'[1].req))
        => NameBeforeParent(h'[1]) ]_vars

\* A relationship write with a list as linkage, for an unknown relationship of
\* a parent that does not exist, was answered 'Relationship Not Found'
C25_Witness ==
    /\ h[1].pc = "done"
    /\ h[1].req.op = "UpdateRelationship"
    /\ h[1].req.data.shape = "array"
    /\ Unresolvable(h[1].req)
    /\ ToKey(h[1].req.id) \notin DOMAIN db[h[1].req.model]
    /\ DOMAIN db["Post"] # {}
    /\ IsRelationshipNotFound(h[1].res)

-----------------------------------------------------------------------------
(* SpecSteps: one write request at a time, one persistence call per step *)

\* A database error at any of the persistence calls of a write handler
CallFaults ==
    {NoFault}
    \cup { [at |-> n, name |-> "SequelizeDatabaseError", errors |-> <<>>] : n \in 1..4 }

\* A write request arrives and its handler is called
ReceiveWrite ==
    /\ h[1].pc = "idle"
    /\ \E m \in UserAndPost, id \in IdStrings, f \in CallFaults :
          \/ \E b \in ResourceBodies(models[m], m) :
                /\ nextId[m] <= MaxId
                /\ h' = [h EXCEPT ![1] = Invocation(
                      [Request("Create", m, "", f) EXCEPT
                          !.data = b.data, !.hasAttributes = b.hasAttributes,
                          !.attributes = b.attributes, !.relationships = b.relationships])]
          \/ \E b \in ResourceBodies(models[m], m) :
                h' = [h EXCEPT ![1] = Invocation(
                    [Request("Update", m, id, f) EXCEPT
                        !.data = b.data, !.hasAttributes = b.hasAttributes,
                        !.attributes = b.attributes, !.relationships = b.relationships])]
          \/ h' = [h EXCEPT ![1] = Invocation(Request("Delete", m, id, f))]
          \/ \E rel \in {"posts", "userId"}, b \in LinkageBodies :
                h' = [h EXCEPT ![1] = Invocation(
                    [Request("UpdateRelationship", m, id, f) EXCEPT
                        !.relationship = rel, !.data = b])]
    /\ UNCHANGED <<models, fkChecks, db, nextId, arg>>

StepCreate == Proceed(1, "Create", CreateStep(models, fkChecks, St(db, nextId, h[1])))

StepUpdate == Proceed(1, "Update", UpdateStep(models, fkChecks, St(db, nextId, h[1])))

StepDelete == Proceed(1, "Delete", DeleteStep(models, fkChecks, St(db, nextId, h[1])))

NextSteps ==
    \/ ReceiveWrite
    \/ StepCreate
    \/ StepUpdate
    \/ StepDelete
    \/ StepUpdateRelationship(1)
    \/ Finish

SpecSteps == Init /\ [][NextSteps]_vars

\* Where a handler stands, by the order of its awaited calls
Position(pc) ==
    CASE pc = "start" -> 0
      [] pc \in {"clear", "writeParent", "update", "destroy"} -> 1
      [] pc \in {"set", "reload", "fetch"} -> 2
      [] pc = "read" -> 3
      [] OTHER -> 4

\* The handler has answered or handed over
Ended(c) == c.res.sent + c.res.forwarded >= 1

\* The invocation takes a step
Steps == h[1].pc \notin {"idle", "done"} /\ h'[1] # h[1]

\* The step issues the persistence call that the engine fails
IssuesFailingCall == Steps /\ Faulted(h[1]) /\ h'[1].calls = h[1].calls + 1

\* C26: in Create, Update, Delete and UpdateRelationship no row changes once
\* the handler has answered or handed over; every step moves the handler on in
\* the order of its awaited calls, so that no call is issued twice; and a step
\* whose call fails changes no row and ends the invocation, so that no later
\* call is issued.
C26_WritesAwaitedOnceAndStopOnFailure ==
    [][ /\ (Ended(h[1]) \/ h[1].pc = "done") => db' = db
        /\ Steps => /\ Position(h'[1].pc) > Position(h[1].pc)
                    /\ h'[1].calls <= h[1].calls + 1
                    /\ Ended(h'[1]) <=> h'[1].pc = "done"
        /\ IssuesFailingCall => /\ h'[1].pc = "done"
                                /\ db' = db ]_vars

\* A to-many replacement whose second update failed after the first had
\* cleared a row
C26_Witness ==
    /\ h[1].pc = "done"
    /\ h[1].req.op = "UpdateRelationship"
    /\ h[1].req.fault.at = 3
    /\ h[1].calls = 3
    /\ h[1].cleared # <<>>
    /\ h[1].res.status = 500

\* Both slots hold a to-many replacement of the posts of the same user, and
\* both were answered 200
BothReplaced ==
    /\ Replaced(h[1], "HasMany")
    /\ Replaced(h[2], "HasMany")
    /\ h[1].req.model = h[2].req.model
    /\ h[1].req.id = h[2].req.id
    /\ h[1].req.relationship = h[2].req.relationship

\* C27 as stated: when two to-many replacements of the same relationship of
\* the same parent have both been answered 200, the rows related to the parent
\* are exactly the existing rows of the one list or exactly the existing rows
\* of the other.
C27_ReplacementsSerializable ==
    BothReplaced =>
        LET a == h[1].association
            related == Referencing(db, a.target, a.foreignKey, ToKey(h[1].req.id))
        IN \/ related = Named(db, a.target, h[1].req.data.ids)
           \/ related = Named(db, a.target, h[2].req.data.ids)

-----------------------------------------------------------------------------
(* SpecRouted: the write routes of users and posts behind the middleware *)

\* Content-Type headers of write requests: none, the JSON:API media type and
\* another media type
WriteContentTypes ==
    {NoHeader, HeaderValue(<<JSONAPI_CONTENT_TYPE>>), HeaderValue(<<"application/json">>)}

\* The persistence calls of a routed write succeed, or the engine rejects the
\* values of a create / update
WriteFaults(op) == { f \in Faults(op) : f.name \in {"", "SequelizeValidationError"} }

\* router.use(path, validateContentType) before a write route: the handler
\* run r.c starts from is called only after next()
Routed(method, contentType, req, r) ==
    LET c == validateContentType(method, contentType, Invocation(req))
    IN /\ h[1].pc = "idle"
       /\ db' = IF c.pc = "done" THEN db ELSE r.db
       /\ nextId' = IF c.pc = "done" THEN nextId ELSE r.nextId
       /\ h' = [h EXCEPT ![1] = IF c.pc = "done" THEN c ELSE r.c]
       /\ UNCHANGED <<models, fkChecks, arg>>

RoutedCreate ==
    \E ct \in WriteContentTypes, m \in UserAndPost, f \in WriteFaults("Create") :
      \E b \in ResourceBodies(models[m], m) :
        LET req == [Request("Create", m, "", f) EXCEPT
                       !.data = b.data, !.hasAttributes = b.hasAttributes,
                       !.attributes = b.attributes, !.relationships = b.relationships]
        IN /\ nextId[m] <= MaxId
           /\ Routed("POST", ct, req, CreateRun(models, fkChecks, Start(req)))

RoutedUpdate ==
    \E ct \in WriteContentTypes, m \in UserAndPost, id \in IdStrings,
       f \in WriteFaults("Update") :
      \E b \in ResourceBodies(models[m], m) :
        LET req == [Request("Update", m, id, f) EXCEPT
                       !.data = b.data, !.hasAttributes = b.hasAttributes,
                       !.attributes = b.attributes, !.relationships = b.relationships]
        IN Routed("PATCH", ct, req, UpdateRun(models, fkChecks, Start(req)))

RoutedDelete ==
    \E ct \in WriteContentTypes, m \in UserAndPost, id \in IdStrings,
       f \in WriteFaults("Delete") :
        LET req == Request("Delete", m, id, f)
        IN Routed("DELETE", ct, req, DeleteRun(models, fkChecks, Start(req)))

RoutedUpdateRelationship ==
    \E ct \in WriteContentTypes, m \in UserAndPost, id \in IdStrings,
       rel \in RelationshipNames, b \in LinkageBodies,
       f \in WriteFaults("UpdateRelationship") :
        LET req == [Request("UpdateRelationship", m, id, f) EXCEPT
                       !.relationship = rel, !.data = b]
        IN Routed("PATCH", ct, req, UpdateRelationshipRun(models, fkChecks, Start(req)))

NextRouted ==
    \/ RoutedCreate
    \/ RoutedUpdate
    \/ RoutedDelete
    \/ RoutedUpdateRelationship
    \/ Finish

SpecRouted == Init /\ [][NextRouted]_vars

\* The request was answered with a 4xx status
IsClientError(res) == res.sent >= 1 /\ res.status \in 400..499

\* C28: a Create, Update, Delete or UpdateRelationship request that is
\* answered with a 4xx status (400, 404, 415 or 422) creates, changes and
\* destroys no row.
C28_ClientErrorChangesNothing ==
    [][ (h[1].pc = "idle" /\ h'[1].pc = "done" /\ IsClientError(h'[1].res))
        => db' = db ]_vars

\* An update of an existing post that names a user was answered 422
C28_Witness ==
    /\ h[1].pc = "done"
    /\ h[1].req.op = "Update"
    /\ h[1].req.model = "Post"
    /\ ToKey(h[1].req.id) \in DOMAIN db["Post"]
    /\ h[1].req.relationships # <<>>
    /\ h[1].res.sent = 1
    /\ h[1].res.status = 422

\* C29 as stated: no user is referenced by more than one profile, in every
\* state that creates, updates, deletes and relationship writes on either side
\* of the foreign key lead to from the empty store.
C29_HasOneAtMostOne ==
    \A u \in 1..MaxId : Cardinality(Referencing(db, "Profile", "userId", u)) <= 1

\* C30: an invocation that has not ended has neither answered nor handed
\* over; one that has ended has either sent exactly one response and not
\* handed over, or handed over exactly once without a response.
C30_OneResponseOrOneForward ==
    \A s \in Slots :
        LET res == h[s].res
        IN IF h[s].pc = "done"
           THEN \/ res.sent = 1 /\ res.forwarded = 0
                \/ res.sent = 0 /\ res.forwarded = 1
           ELSE res.sent = 0 /\ res.forwarded = 0

\* GetRelated has handed a request for an unknown relationship of an existing
\* row over to the next middleware, with no response sent
C30_Witness ==
    /\ h[1].pc = "done"
    /\ h[1].req.op = "GetRelated"
    /\ Unresolvable(h[1].req)
    /\ ToKey(h[1].req.id) \in DOMAIN db[h[1].req.model]
    /\ h[1].res.sent = 0
    /\ h[1].res.forwarded = 1

====
